---- MODULE Spec2Model ----
(***************************************************************************)
(* lspath: reconstruction of how a shell's PATH is assembled at startup.   *)
(*                                                                         *)
(* The model follows internal/trace/analyzer.go: Analyze is the loop over  *)
(* the trace events (one ProcessEvent step per event) followed by the      *)
(* post-processing of the final snapshot (Finish); AnalyzeUnified is       *)
(* Analyze on the sandbox baseline followed by the merge with the live     *)
(* PATH (Unify).  Strings are TLA+ strings, scanned with Len and SubSeq as *)
(* the Go code scans them with the strings package.                        *)
(***************************************************************************)
EXTENDS Integers, Sequences, FiniteSets, TLC

(***************************************************************************)
(* Bounds of the model.                                                    *)
(***************************************************************************)
\* number of trace events handed to Analyze
MaxEvents == 3

(***************************************************************************)
(* The strings package.                                                    *)
(***************************************************************************)
HasPrefix(s, p) == Len(s) >= Len(p) /\ SubSeq(s, 1, Len(p)) = p

HasSuffix(s, p) == Len(s) >= Len(p) /\ SubSeq(s, Len(s) - Len(p) + 1, Len(s)) = p

Contains(s, sub) ==
    \E i \in 1..(Len(s) - Len(sub) + 1) : SubSeq(s, i, i + Len(sub) - 1) = sub

RECURSIVE SplitFrom(_, _, _)
SplitFrom(s, start, i) ==
    IF i > Len(s) THEN << SubSeq(s, start, Len(s)) >>
    ELSE IF SubSeq(s, i, i) = ":"
         THEN << SubSeq(s, start, i - 1) >> \o SplitFrom(s, i + 1, i + 1)
         ELSE SplitFrom(s, start, i + 1)

\* strings.Split(s, ":"): the segments between the colons, empty ones kept
Split(s) == SplitFrom(s, 1, 1)

\* the loops' "if p == "" { continue }" over the segments of a PATH string
NonEmptyParts(s) == SelectSeq(Split(s), LAMBDA p : p # "")

(***************************************************************************)
(* Program constants.                                                      *)
(***************************************************************************)
SandboxInitialPath == "/usr/bin:/bin:/usr/sbin:/sbin"

SystemDefault == "System (Default)"

SessionFile == "Session (Manual/Runtime)"

MissingDiagnostic == "Directory does not exist on disk."

commonSystemPaths ==
    << "/usr/local/sbin", "/usr/local/bin", "/usr/sbin", "/usr/bin", "/sbin",
       "/bin", "/usr/games", "/usr/local/games", "/snap/bin", "/opt/local/bin",
       "/opt/local/sbin" >>

isLikelySystemPath(path) ==
    \E i \in 1..Len(commonSystemPaths) : path = commonSystemPaths[i]

zshStandard ==
    << [PathSuffix |-> "/etc/zshenv", Rank |-> 1],
       [PathSuffix |-> "/.zshenv", Rank |-> 2],
       [PathSuffix |-> "/etc/zprofile", Rank |-> 3],
       [PathSuffix |-> "/.zprofile", Rank |-> 4],
       [PathSuffix |-> "/etc/zshrc", Rank |-> 5],
       [PathSuffix |-> "/.zshrc", Rank |-> 6],
       [PathSuffix |-> "/etc/zlogin", Rank |-> 7],
       [PathSuffix |-> "/.zlogin", Rank |-> 8] >>

bashStandard ==
    << [PathSuffix |-> "/etc/profile", Rank |-> 1],
       [PathSuffix |-> "/etc/bash.bashrc", Rank |-> 2],
       [PathSuffix |-> "/etc/bashrc", Rank |-> 3],
       [PathSuffix |-> "/.bash_profile", Rank |-> 4],
       [PathSuffix |-> "/.bash_login", Rank |-> 5],
       [PathSuffix |-> "/.profile", Rank |-> 6],
       [PathSuffix |-> "/.bashrc", Rank |-> 7] >>

\* getRank's answer for a file that matches no canonical suffix
NonStandardRank == 999

importantKeys ==
    << "zshenv", ".zshenv", "zprofile", ".zprofile", "zshrc", ".zshrc",
       "zlogin", ".zlogin", "bash_profile", ".bash_profile", "bashrc",
       ".bashrc", "bash.bashrc", "profile", ".profile", "bash_login" >>

isImportantConfig(path) ==
    \/ path = SystemDefault
    \/ \E i \in 1..Len(importantKeys) :
          HasSuffix(path, "/" \o importantKeys[i]) \/ path = importantKeys[i]

GuessShellMode(filename) ==
    IF \/ Contains(filename, "zprofile") \/ Contains(filename, "zlogin")
       \/ Contains(filename, "bash_profile") \/ Contains(filename, "profile")
    THEN "Login"
    ELSE IF Contains(filename, "zshrc") \/ Contains(filename, "bashrc")
    THEN "Interactive"
    ELSE IF Contains(filename, "zshenv") \/ Contains(filename, "environment")
    THEN "Env/All"
    ELSE "Unknown"

\* variant: no file is noisy
isSystemFile_None(file) == FALSE

\* the "noisy internal" files whose switches the reconstruction ignores
isSystemFile(file) ==
    HasPrefix(file, "/usr/share/zsh") \/ HasPrefix(file, "/etc/zshrc_Apple_Terminal")

\* The backquote character.  A TLA+ string literal cannot hold it, so the
\* model writes it as the caret, which occurs in no other string here.
Backquote == "^"

\* an eval whose output may change PATH: "eval " with $( or a backquote
isEvalWithSubstitution(cmd) ==
    Contains(cmd, "eval ") /\ (Contains(cmd, "$(") \/ Contains(cmd, Backquote))

\* fmt.Sprintf("node-%d", n)
NodeID(n) == "node-" \o ToString(n)

\* fmt.Sprintf("ghost-%d", rank)
GhostID(rank) == "ghost-" \o ToString(rank)

(***************************************************************************)
(* The path/filepath and os packages, on clean slash-separated paths.      *)
(***************************************************************************)
\* os.UserHomeDir()
Home == "/home/u"

RECURSIVE LastSlash(_, _)
\* position of the last "/" of s at or before i, 0 when there is none
LastSlash(s, i) ==
    IF i = 0 THEN 0
    ELSE IF SubSeq(s, i, i) = "/" THEN i
    ELSE LastSlash(s, i - 1)

\* filepath.Dir of a clean path
Dir(path) ==
    LET k == LastSlash(path, Len(path))
    IN  IF k = 0 THEN "." ELSE IF k = 1 THEN "/" ELSE SubSeq(path, 1, k - 1)

IsAbs(path) == HasPrefix(path, "/")

RECURSIVE CleanParts(_, _, _)
\* filepath.Clean's walk over the "/"-separated elements from position i:
\* empty elements and "." are dropped, ".." removes the element before it
CleanParts(parts, i, out) ==
    IF i > Len(parts) THEN out
    ELSE IF parts[i] = "" \/ parts[i] = "."
    THEN CleanParts(parts, i + 1, out)
    ELSE IF parts[i] = ".."
    THEN CleanParts(parts, i + 1,
                    IF Len(out) > 0 THEN SubSeq(out, 1, Len(out) - 1) ELSE out)
    ELSE CleanParts(parts, i + 1, Append(out, parts[i]))

RECURSIVE SlashSplit(_, _, _)
SlashSplit(s, start, i) ==
    IF i > Len(s) THEN << SubSeq(s, start, Len(s)) >>
    ELSE IF SubSeq(s, i, i) = "/"
         THEN << SubSeq(s, start, i - 1) >> \o SlashSplit(s, i + 1, i + 1)
         ELSE SlashSplit(s, start, i + 1)

RECURSIVE SlashJoin(_)
SlashJoin(parts) ==
    IF Len(parts) = 0 THEN ""
    ELSE "/" \o parts[1] \o SlashJoin(Tail(parts))

\* filepath.Clean of an absolute path
Clean(path) ==
    LET parts == CleanParts(SlashSplit(path, 1, 1), 1, << >>)
    IN  IF Len(parts) = 0 THEN "/" ELSE SlashJoin(parts)

\* filepath.Join(dir, rest) for an absolute dir
JoinPath(dir, rest) == Clean(dir \o "/" \o rest)

expandTilde(path) ==
    IF HasPrefix(path, "~/") THEN JoinPath(Home, SubSeq(path, 3, Len(path)))
    ELSE IF path = "~" THEN Home
    ELSE path

(***************************************************************************)
(* Inputs.                                                                 *)
(***************************************************************************)
\* the files the trace lines name: two canonical zsh files, a sourced
\* helper, and one of the shell's own function files
Files ==
    { "/etc/zprofile", "/home/u/.zshrc", "/home/u/.nvm/nvm.sh",
      "/usr/share/zsh/functions/add-zsh-hook" }

Lines == { 2, 5 }

\* commands that assign nothing to PATH
PlainCommands == { "eval $(brew shellenv)", "echo hi" }

\* The PATH values the traced assignments carry: a reset to one new
\* directory; the first scenario's value (baseline kept, one directory
\* added); a directory repeated around another one; empty segments with
\* the home directory written two ways, three times in all.
EventPaths ==
    { "/opt/tool",
      "/usr/bin:/bin:/opt/tool",
      "/opt/tool:/usr/bin:/opt/tool",
      ":~/bin::/home/u/bin:~/bin:" }

\* a trace event as the parser delivers it: PathChange is "" unless the
\* command assigns PATH
TraceEvents ==
    { [File |-> f, Line |-> l, RawCommand |-> c, PathChange |-> ""] :
          f \in Files, l \in Lines, c \in PlainCommands }
    \cup
    { [File |-> f, Line |-> l, RawCommand |-> "export PATH=" \o p, PathChange |-> p] :
          f \in Files, l \in Lines, p \in EventPaths }

\* What the predicates over file names, commands and PATH strings answer on
\* the inputs, computed once.
\* the files of the node lists handed to gap injection on its own: the
\* traced files, three bash files and the baseline's name
GapFiles ==
    Files \cup { "/etc/profile", "/home/u/.bash_profile", "/home/u/.bashrc", SystemDefault }

FileFacts ==
    [ f \in GapFiles |->
        [ isSystem |-> isSystemFile(f),
          isImportant |-> isImportantConfig(f),
          isTopLevel |-> /\ isImportantConfig(f)
                         /\ ~Contains(f, "cargo")
                         /\ ~Contains(f, "nvm"),
          mode |-> GuessShellMode(f),
          bash |-> Contains(f, "bash"),
          zsh |-> Contains(f, "zsh"),
          login |-> \/ Contains(f, "zprofile")
                    \/ Contains(f, "zlogin")
                    \/ Contains(f, "bash_profile") ] ]

EvalCommands == { c \in PlainCommands : isEvalWithSubstitution(c) }

PartsOf == [ p \in EventPaths |-> Split(p) ]

\* the baseline PATH handed to Analyze: none, the scenario's, the sandbox's
Baselines == { "", "/usr/bin:/bin", SandboxInitialPath }

\* The live PATH handed to AnalyzeUnified: an OS default outside the
\* baseline, a directory the trace may explain and one it cannot; a repeated
\* directory; baseline directories behind a session one; empty segments;
\* the home directory written two ways; an empty PATH.
LivePaths ==
    { "/usr/local/bin:/opt/tool:/venv/bin",
      "/opt/tool:/opt/tool:/opt/tool",
      "/venv/bin:/usr/bin:/bin:/venv/bin",
      ":/usr/bin::/usr/local/bin:",
      "~/bin:/home/u/bin",
      "" }

\* every directory an entry can hold
AllDirs ==
    UNION { { q[i] : i \in 1..Len(q) } :
              q \in { Split(p) : p \in EventPaths \cup Baselines \cup LivePaths } }

(***************************************************************************)
(* State.                                                                  *)
(***************************************************************************)
VARIABLES
    phase,          \* "run": in Analyze's event loop; "done": Analyze has
                    \* returned; "unified": AnalyzeUnified has returned
    initialPath,    \* Analyze's baseline argument
    flowNodes,      \* the raw flow-node sequence
    lastFile,       \* file of the last event that switched files
    currentNode,    \* the ID of the node currentNode points to, "" for nil
    lastPathStr,    \* the PATH string of the last applied assignment
    currentEntries, \* the current snapshot
    fileStack,      \* the file nesting stack
    evalContext,    \* map: file -> line of its last eval with substitution
    evalUsed,       \* map: file -> the eval has been credited a PATH change
    nodeCounter,
    fs,             \* the filesystem the post-processor probes
    result,         \* Analyze's AnalysisResult
    sessionPath,    \* AnalyzeUnified's live PATH argument
    unified,        \* AnalyzeUnified's AnalysisResult
    \* history variables, read by the properties only
    nEvents,        \* number of events consumed
    lastAssign,     \* PATH value of the last event that carried one
    nApplied,       \* number of applied PATH assignments
    prevEntries,    \* the snapshot before the last applied assignment
    stayed,         \* baseline values present through every assignment
    intro,          \* value -> the event that last introduced it
    fired,          \* per file: the PATH changes credited to its eval since that eval
    lastEv,         \* file and PATH value of the last event consumed
    \* a second run of Analyze on the same input
    events,         \* the event list handed to Analyze, as far as consumed
    rerun,          \* the AnalysisResult of the second run
    \* the parser and the run around it
    stream,         \* the lines the scanner will still deliver
    ending,         \* how the stream ends: "eof" or "error"
    pc,             \* the producer goroutine's position
    pending,        \* the event the producer is sending
    errs,           \* the buffer of the error channel
    closed,         \* the channels the producer has closed
    scanned,        \* the lines the scanner has returned, in order
    received,       \* the events the consumer has received, in order
    errSent,        \* number of sends on the error channel
    rpc,            \* the run's position
    runMode,        \* the run's mode: "report", "json" or "web"
    output,         \* what the run has delivered to its caller
    given,          \* the node list handed to gap injection
    placed,         \* the node list gap injection returned, in a sequence of one
    session,        \* AnalyzeSessionPath's AnalysisResult, in a sequence of one
    app,            \* the TUI's AppModel
    lastKey,        \* the key of the last key message
    held            \* what the AppModel showed before the last key message

locals ==
    << flowNodes, lastFile, currentNode, lastPathStr, currentEntries, fileStack,
       evalContext, evalUsed, nodeCounter >>

history == << nEvents, lastAssign, nApplied, prevEntries, stayed, intro, fired, lastEv >>

replay == << events, rerun >>

parsing == << stream, ending, pc, pending, errs, closed, scanned, received, errSent >>

running == << rpc, runMode, output >>

tui == << app, lastKey, held >>

gaps == << given, placed >>

which == << session >>

vars ==
    << phase, initialPath, locals, fs, result, sessionPath, unified, history, replay,
       parsing, running, tui, gaps, which >>

(***************************************************************************)
(* Records.                                                                *)
(***************************************************************************)
\* a model.PathEntry with the fields given and Go's zero value elsewhere
PathEntry(value, file, line, mode, flowID) ==
    [ Value |-> value, SourceFile |-> file, LineNumber |-> line, Mode |-> mode,
      FlowID |-> flowID, IsDuplicate |-> FALSE, DuplicateOf |-> 0,
      IsSymlink |-> FALSE, SymlinkTarget |-> "", SymlinkPointsTo |-> 0,
      IsSessionOnly |-> FALSE, Diagnostics |-> << >> ]

\* a model.ConfigNode
ConfigNode(id, file, order, depth, notExecuted, entries) ==
    [ ID |-> id, FilePath |-> file, Order |-> order, Depth |-> depth,
      NotExecuted |-> notExecuted, Entries |-> entries ]

\* m[k] = v on a Go map
MapPut(m, k, v) == [ x \in (DOMAIN m) \cup { k } |-> IF x = k THEN v ELSE m[x] ]

EmptyMap == [ x \in { } |-> 0 ]

\* index of the first element of seq satisfying Test, 0 when there is none
FirstIndex(seq, Test(_)) ==
    IF \E i \in 1..Len(seq) : Test(seq[i])
    THEN CHOOSE i \in 1..Len(seq) :
             Test(seq[i]) /\ \A j \in 1..(i - 1) : ~Test(seq[j])
    ELSE 0

Values(entries) == { entries[i].Value : i \in 1..Len(entries) }

(***************************************************************************)
(* Analyze: baseline seeding.                                              *)
(***************************************************************************)
BaselineEntries(path) ==
    LET parts == NonEmptyParts(path)
    IN  [ i \in 1..Len(parts) |->
            PathEntry(parts[i], SystemDefault, 0, "System", NodeID(0)) ]

BaselineNodes(path) ==
    IF path # ""
    THEN << ConfigNode(NodeID(0), SystemDefault, 0, 0, FALSE, << >>) >>
    ELSE << >>

(***************************************************************************)
(* Analyze: one iteration of the loop over the events.                     *)
(***************************************************************************)
\* variant: every switch goes one level deeper
SwitchStack_Push(stack, file) == Append(stack, file)

\* the nesting stack after a switch to file
SwitchStack(stack, file) ==
    LET hits == { i \in 1..Len(stack) : stack[i] = file }
        isTopLevel == FileFacts[file].isTopLevel
    IN  IF hits # { }
        THEN SubSeq(stack, 1, CHOOSE i \in hits : \A j \in hits : j <= i)
        ELSE IF isTopLevel THEN << file >> ELSE Append(stack, file)

\* variant: the depth is the stack's length
StackDepth_Length(stack) == Len(stack)

\* depth := getStackDepth(), clamped at 0
StackDepth(stack) == IF Len(stack) - 1 < 0 THEN 0 ELSE Len(stack) - 1

\* the event's eval in file is on an earlier line and not yet credited
EvalApplies(ev, ctx, used) ==
    /\ ev.File \in DOMAIN ctx
    /\ ~(ev.File \in DOMAIN used /\ used[ev.File])
    /\ ev.Line > ctx[ev.File]

\* variant: the lookup in the current snapshot never finds the directory
ExistingIndex_None(cur, p) == 0

\* "Is this p in currentEntries?": the first entry with that value, 0 if none
ExistingIndex(cur, p) == FirstIndex(cur, LAMBDA c : c.Value = p)

\* variant: a new entry is credited to the baseline's name
NewPathEntry_Baseline(p, ev, lineNum, nodeID) ==
    PathEntry(p, SystemDefault, lineNum, FileFacts[ev.File].mode, nodeID)

\* the entry created for a directory the snapshot does not hold
NewPathEntry(p, ev, lineNum, nodeID) ==
    PathEntry(p, ev.File, lineNum, FileFacts[ev.File].mode, nodeID)

\* variant: an eval credited with a PATH change stays unused
MarkUsed_Not(used, file) == used

\* "evalUsed[ev.File] = true"
MarkUsed(used, file) == MapPut(used, file, TRUE)

RECURSIVE DiffFrom(_, _, _, _, _, _, _)
\* The loop over newPaths from position i on.  acc.entries is newEntries,
\* acc.used is evalUsed; the loop sets evalUsed as soon as it has credited
\* one new entry to the eval.
DiffFrom(newPaths, i, cur, ev, nodeID, ctx, acc) ==
    IF i > Len(newPaths) THEN acc
    ELSE LET p == newPaths[i]
             existing == ExistingIndex(cur, p)
             inEval == EvalApplies(ev, ctx, acc.used)
             lineNum == IF inEval THEN ctx[ev.File] ELSE ev.Line
         IN  IF p = ""
             THEN DiffFrom(newPaths, i + 1, cur, ev, nodeID, ctx, acc)
             ELSE IF existing # 0
             THEN DiffFrom(newPaths, i + 1, cur, ev, nodeID, ctx,
                           [acc EXCEPT !.entries = Append(@, cur[existing])])
             ELSE DiffFrom(newPaths, i + 1, cur, ev, nodeID, ctx,
                           [ entries |-> Append(acc.entries,
                                                NewPathEntry(p, ev, lineNum, nodeID)),
                             used |-> IF inEval THEN MarkUsed(acc.used, ev.File)
                                      ELSE acc.used ])

\* variant: a directory the assignment repeats is taken once
DiffPath_Unique(cur, ev, nodeID, ctx, used) ==
    LET parts == PartsOf[ev.PathChange]
        keep == SelectSeq([ i \in 1..Len(parts) |-> i ],
                          LAMBDA i : \A j \in 1..(i - 1) : parts[j] # parts[i])
    IN  DiffFrom([ k \in 1..Len(keep) |-> parts[keep[k]] ], 1, cur, ev, nodeID, ctx,
                 [ entries |-> << >>, used |-> used ])

\* the snapshot and evalUsed after the assignment carried by ev
DiffPath(cur, ev, nodeID, ctx, used) ==
    DiffFrom(PartsOf[ev.PathChange], 1, cur, ev, nodeID, ctx,
             [ entries |-> << >>, used |-> used ])

\* Analyze is entered
AnalyzeInit ==
    /\ phase = "run"
    /\ initialPath \in Baselines
    /\ flowNodes = BaselineNodes(initialPath)
    /\ lastFile = ""
    /\ currentNode = ""
    /\ lastPathStr = initialPath
    /\ currentEntries = BaselineEntries(initialPath)
    /\ fileStack = << >>
    /\ evalContext = EmptyMap
    /\ evalUsed = EmptyMap
    /\ nodeCounter = 0
    /\ fs = "todo"
    /\ result = "none"
    /\ sessionPath = ""
    /\ unified = "none"
    /\ nEvents = 0
    /\ lastAssign = initialPath
    /\ nApplied = 0
    /\ prevEntries = << >>
    /\ stayed = Values(BaselineEntries(initialPath))
    /\ intro = EmptyMap
    /\ fired = EmptyMap
    /\ lastEv = [ File |-> "", PathChange |-> "" ]
    /\ events = << >>
    /\ rerun = "none"

\* InitialModel(): loading, every mode off, nothing selected; the scroll
\* positions and the loaded file and directory texts are left out, no
\* handler reads them to set a mode or a selection
InitialModel ==
    [ Loading |-> TRUE, Quit |-> FALSE,
      Nodes |-> 0, Entries |-> 0, Filtered |-> 0,
      SelectedIdx |-> 0, FlowSelectedIdx |-> 0,
      ShowDiagnostics |-> FALSE, ShowFlow |-> FALSE, CumulativeFlow |-> FALSE,
      ShowHelp |-> FALSE, ShowDiagnosticsPopup |-> FALSE, DiagnosticsVerbose |-> FALSE,
      InputMode |-> FALSE, InputLen |-> 0, SearchActive |-> FALSE,
      RightPanelFocus |-> "FocusFlowList", NormalRightFocus |-> FALSE ]

\* what a key message found: Flow Mode, the cumulative view, the flow
\* selection, and whether the input line, the help dialog or the
\* diagnostics popup was open
Shown(a) ==
    [ ShowFlow |-> a.ShowFlow, CumulativeFlow |-> a.CumulativeFlow,
      FlowSelectedIdx |-> a.FlowSelectedIdx,
      Modal |-> (a.InputMode \/ a.ShowHelp \/ a.ShowDiagnosticsPopup) ]

\* no TUI around the analysis
TuiIdle ==
    /\ app = InitialModel
    /\ lastKey = ""
    /\ held = Shown(InitialModel)

\* no session analysis asked for
WhichIdle == session = << >>

\* no gap injection on its own
GapsIdle ==
    /\ given = << >>
    /\ placed = << >>

\* no parser and no run around the analysis
ParserIdle ==
    /\ stream = << >>
    /\ ending = "eof"
    /\ pc = "idle"
    /\ pending = << >>
    /\ errs = << >>
    /\ closed = { }
    /\ scanned = << >>
    /\ received = << >>
    /\ errSent = 0
    /\ rpc = "idle"
    /\ runMode = "none"
    /\ output = << >>

Init == AnalyzeInit /\ ParserIdle /\ TuiIdle /\ GapsIdle /\ WhichIdle

\* Analyze's loop-carried locals as one record
Locals ==
    [ flowNodes |-> flowNodes, lastFile |-> lastFile, currentNode |-> currentNode,
      lastPathStr |-> lastPathStr, currentEntries |-> currentEntries,
      fileStack |-> fileStack, evalContext |-> evalContext, evalUsed |-> evalUsed,
      nodeCounter |-> nodeCounter ]

\* the eval bookkeeping after the eval detection on ev
NoteEval(st, ev) ==
    IF ev.RawCommand \in EvalCommands
    THEN [ ctx |-> MapPut(st.evalContext, ev.File, ev.Line),
           used |-> MapPut(st.evalUsed, ev.File, FALSE) ]
    ELSE [ ctx |-> st.evalContext, used |-> st.evalUsed ]

\* the assignment ev carries is applied
Changes(st, ev) == ev.PathChange # "" /\ ev.PathChange # st.lastPathStr

\* one iteration of the event loop: the locals after ev
StepEvent(st, ev) ==
    LET noted == NoteEval(st, ev)
        isPathChange == ev.PathChange # ""
        switch == ev.File # st.lastFile
                  /\ ~(FileFacts[ev.File].isSystem /\ ~isPathChange)
        stack1 == IF switch THEN SwitchStack(st.fileStack, ev.File) ELSE st.fileStack
        counter1 == IF switch THEN st.nodeCounter + 1 ELSE st.nodeCounter
        node == ConfigNode(NodeID(counter1), ev.File, counter1, StackDepth(stack1),
                           FALSE, << >>)
        cur1 == IF switch THEN node.ID ELSE st.currentNode
        change == Changes(st, ev)
        d == DiffPath(st.currentEntries, ev, cur1, noted.ctx, noted.used)
    IN  [ flowNodes |-> IF switch THEN Append(st.flowNodes, node) ELSE st.flowNodes,
          lastFile |-> IF switch THEN ev.File ELSE st.lastFile,
          currentNode |-> cur1,
          lastPathStr |-> IF change THEN ev.PathChange ELSE st.lastPathStr,
          currentEntries |-> IF change THEN d.entries ELSE st.currentEntries,
          fileStack |-> stack1,
          evalContext |-> noted.ctx,
          evalUsed |-> IF change THEN d.used ELSE noted.used,
          nodeCounter |-> counter1 ]

ProcessEvent(ev) ==
    /\ phase = "run"
    /\ nEvents < MaxEvents
    /\ \E st \in { StepEvent(Locals, ev) } :
        LET noted == NoteEval(Locals, ev)
            isPathChange == ev.PathChange # ""
            change == Changes(Locals, ev)
            fresh == IF change
                     THEN { v \in Values(st.currentEntries) :
                              v \notin Values(currentEntries) }
                     ELSE { }
        IN
        /\ flowNodes' = st.flowNodes
        /\ lastFile' = st.lastFile
        /\ currentNode' = st.currentNode
        /\ lastPathStr' = st.lastPathStr
        /\ currentEntries' = st.currentEntries
        /\ fileStack' = st.fileStack
        /\ evalContext' = st.evalContext
        /\ evalUsed' = st.evalUsed
        /\ nodeCounter' = st.nodeCounter
        /\ nEvents' = nEvents + 1
        /\ lastAssign' = IF isPathChange THEN ev.PathChange ELSE lastAssign
        /\ nApplied' = IF change THEN nApplied + 1 ELSE nApplied
        /\ prevEntries' = IF change THEN currentEntries ELSE prevEntries
        /\ stayed' = IF change THEN stayed \cap Values(st.currentEntries) ELSE stayed
        /\ intro' = IF change
                     THEN [ v \in (DOMAIN intro) \cup fresh |->
                              IF v \in fresh
                              THEN [ File |-> ev.File, Line |-> ev.Line,
                                     Node |-> st.currentNode,
                                     Eval |-> EvalApplies(ev, noted.ctx, noted.used),
                                     EvalLine |-> IF ev.File \in DOMAIN noted.ctx
                                                  THEN noted.ctx[ev.File] ELSE 0 ]
                              ELSE intro[v] ]
                     ELSE intro
        /\ lastEv' = [ File |-> ev.File, PathChange |-> ev.PathChange ]
        /\ fired' = IF ev.RawCommand \in EvalCommands THEN MapPut(fired, ev.File, 0)
                     ELSE IF \E i \in 1..Len(st.currentEntries) :
                                /\ change
                                /\ st.currentEntries[i].Value \in fresh
                                /\ st.currentEntries[i].LineNumber # ev.Line
                     THEN MapPut(fired, ev.File,
                                 IF ev.File \in DOMAIN fired THEN fired[ev.File] + 1 ELSE 1)
                     ELSE fired
        /\ UNCHANGED << phase, initialPath, fs, result, sessionPath, unified, rerun,
                        parsing, running, tui, gaps, which >>

(***************************************************************************)
(* The filesystem.                                                         *)
(***************************************************************************)
\* A filesystem: the absent paths and the symbolic links with the target
\* os.Readlink reports.  Every other path is a directory.  The third one
\* has two links to one directory, one relative and one absolute.
FileSystems ==
    { [ missing |-> { }, links |-> EmptyMap ],
      [ missing |-> { "/opt/tool" }, links |-> [ x \in { "/bin" } |-> "usr/bin" ] ],
      [ missing |-> { },
        links |-> [ x \in { "/bin", "/opt/tool" } |->
                      IF x = "/bin" THEN "usr/bin" ELSE "/usr/bin" ] ] }

\* os.Lstat succeeds and reports a symlink
IsSymlinkOnDisk(fsys, path) == path \in DOMAIN fsys.links

\* the path a symlink resolves to, one level
LinkTarget(fsys, path) ==
    LET target == fsys.links[path]
    IN  Clean(IF IsAbs(target) THEN target ELSE Dir(path) \o "/" \o target)

\* os.Stat reports that the path does not exist (Stat follows the link)
NotExist(fsys, path) ==
    IF IsSymlinkOnDisk(fsys, path) THEN LinkTarget(fsys, path) \in fsys.missing
    ELSE path \in fsys.missing

(***************************************************************************)
(* The consistency post-processor (duplicates, symlinks, disk existence).  *)
(* Indices are the Go slice indices: entry i of the code is es[i + 1].     *)
(***************************************************************************)
\* expandTilde on the directories of the inputs, computed once
Normalized == [ v \in AllDirs |-> expandTilde(v) ]

\* variant: every occurrence is registered, a duplicate too
Register_Always(m, key, i, isDuplicate) == MapPut(m, key, i)

\* "if !IsDuplicate { m[key] = i }": only a first occurrence is registered
Register(m, key, i, isDuplicate) == IF isDuplicate THEN m ELSE MapPut(m, key, i)

\* variant: the look-up in seen never finds the key
Known_Never(m, key) == FALSE

\* "if firstIdx, ok := seen[normalizedPath]; ok"
Known(m, key) == key \in DOMAIN m

RECURSIVE PostFrom(_, _, _)
\* the loop body for entry i (0-based) and the rest of the loop;
\* acc = [es, seen, resolvedPaths]
PostFrom(i, acc, fsys) ==
    IF i >= Len(acc.es) THEN acc.es
    ELSE LET e == acc.es[i + 1]
             normalizedPath == Normalized[e.Value]
             isLink == IsSymlinkOnDisk(fsys, normalizedPath)
             e1 == IF isLink
                   THEN [e EXCEPT !.IsSymlink = TRUE,
                                  !.SymlinkTarget = LinkTarget(fsys, normalizedPath)]
                   ELSE e
             resolvedPath == IF isLink THEN e1.SymlinkTarget ELSE normalizedPath
             e2 == IF Known(acc.seen, normalizedPath)
                   THEN [e1 EXCEPT !.IsDuplicate = TRUE,
                                   !.DuplicateOf = acc.seen[normalizedPath]]
                   ELSE IF e1.IsSymlink /\ resolvedPath \in DOMAIN acc.resolvedPaths
                   THEN [e1 EXCEPT !.SymlinkPointsTo = acc.resolvedPaths[resolvedPath]]
                   ELSE e1
             e3 == IF NotExist(fsys, normalizedPath)
                   THEN [e2 EXCEPT !.Diagnostics = Append(@, MissingDiagnostic)]
                   ELSE e2
         IN  PostFrom(i + 1,
                      [ es |-> [acc.es EXCEPT ![i + 1] = e3],
                        seen |-> Register(acc.seen, normalizedPath, i, e2.IsDuplicate),
                        resolvedPaths |-> Register(acc.resolvedPaths, resolvedPath, i,
                                                   e2.IsDuplicate) ],
                      fsys)

PostProcess(entries, fsys) ==
    PostFrom(0, [ es |-> entries, seen |-> EmptyMap, resolvedPaths |-> EmptyMap ], fsys)

(***************************************************************************)
(* The flow graph builder.                                                 *)
(***************************************************************************)
\* the 0-based indices of the entries owned by the node with this ID
IndicesOf(entries, id) ==
    LET owned == SelectSeq([ i \in 1..Len(entries) |-> i ],
                           LAMBDA i : entries[i].FlowID = id)
    IN  [ k \in 1..Len(owned) |-> owned[k] - 1 ]

\* 1. each entry's index is appended to the entries of the node it names
AttributeEntries(nodes, entries) ==
    [ n \in 1..Len(nodes) |->
        [ nodes[n] EXCEPT !.Entries = @ \o IndicesOf(entries, nodes[n].ID) ] ]

\* variant: a merged node's entries keep the flowID of the node dropped
Redirect_Keep(entries, indices, id) == entries

\* entries with the FlowID of those at the given 0-based indices set to id
Redirect(entries, indices, id) ==
    [ i \in 1..Len(entries) |->
        IF \E k \in 1..Len(indices) : indices[k] = i - 1
        THEN [ entries[i] EXCEPT !.FlowID = id ]
        ELSE entries[i] ]

\* variant: a node is never taken for a repeat of the last retained node
SameFileAsLast_Never(clean, node) == FALSE

\* "len(cleanNodes) > 0 && last.FilePath == node.FilePath"
SameFileAsLast(clean, node) ==
    Len(clean) > 0 /\ clean[Len(clean)].FilePath = node.FilePath

\* the filter with its test replaced: no node is ever dropped
Dropped_Never(node) == FALSE

\* "if len(node.Entries) == 0 && !isImportant { continue }"
Dropped(node) ==
    Len(node.Entries) = 0 /\ ~FileFacts[node.FilePath].isImportant

\* the merge with the later node's entries lost
Coalesce_KeepLast(last, node) == last

\* "last.Entries = append(last.Entries, node.Entries...)"
Coalesce(last, node) == [ last EXCEPT !.Entries = @ \o node.Entries ]

RECURSIVE FilterMergeFrom(_, _, _)
\* 2. the filter-and-merge loop from node n on; acc = [clean, es]
FilterMergeFrom(nodes, n, acc) ==
    IF n > Len(nodes) THEN acc
    ELSE LET node == nodes[n]
             last == acc.clean[Len(acc.clean)]
         IN  IF Dropped(node)
             THEN FilterMergeFrom(nodes, n + 1, acc)
             ELSE IF SameFileAsLast(acc.clean, node)
             THEN FilterMergeFrom(nodes, n + 1,
                      [ clean |-> [ acc.clean EXCEPT ![Len(acc.clean)] =
                                                        Coalesce(@, node) ],
                        es |-> Redirect(acc.es, node.Entries, last.ID) ])
             ELSE FilterMergeFrom(nodes, n + 1,
                      [ clean |-> Append(acc.clean, node), es |-> acc.es ])

FilterMerge(nodes, entries) ==
    FilterMergeFrom(nodes, 1, [ clean |-> << >>, es |-> entries ])

\* for i := range nodes { nodes[i].Order = i + 1 }
Renumber(nodes) == [ n \in 1..Len(nodes) |-> [ nodes[n] EXCEPT !.Order = n ] ]

detectShellFromNodes(nodes) ==
    LET executed == { n \in 1..Len(nodes) : ~nodes[n].NotExecuted }
        \* strings.ToLower leaves the model's lower-case file names as they are
        bashCount == Cardinality({ n \in executed : FileFacts[nodes[n].FilePath].bash })
        zshCount == Cardinality({ n \in executed : FileFacts[nodes[n].FilePath].zsh })
    IN  IF bashCount > 0 /\ zshCount = 0 THEN "bash" ELSE "zsh"

getRank(standardConfigs, path) ==
    LET k == FirstIndex(standardConfigs, LAMBDA c : HasSuffix(path, c.PathSuffix))
    IN  IF k = 0 THEN NonStandardRank ELSE standardConfigs[k].Rank

\* getRank on the files of the real nodes, computed once per table
RankOf ==
    [ shell \in { "bash", "zsh" } |->
        [ f \in GapFiles |->
            getRank(IF shell = "bash" THEN bashStandard ELSE zshStandard, f) ] ]

\* the placeholder for a canonical file that did not run
GhostNode(std) ==
    ConfigNode(GhostID(std.Rank),
               IF HasPrefix(std.PathSuffix, "/.") THEN "~" \o std.PathSuffix
               ELSE std.PathSuffix,
               0, 0, TRUE, << >>)

\* the placeholders of the two tables, computed once
GhostOf ==
    [ std \in { zshStandard[i] : i \in 1..Len(zshStandard) }
               \cup { bashStandard[i] : i \in 1..Len(bashStandard) } |-> GhostNode(std) ]

\* the gap test with the node's own rank taken for skipped too
Skipped_OrReached(std, nodeRank) == std.Rank <= nodeRank

\* "if std.Rank < nodeRank": the standard file comes before the node
Skipped(std, nodeRank) == std.Rank < nodeRank

RECURSIVE FillGaps(_, _, _)
\* the inner loop before a node of rank nodeRank; acc = [result, standardIdx]
\* with standardIdx 0-based
FillGaps(standardConfigs, nodeRank, acc) ==
    IF acc.standardIdx >= Len(standardConfigs) THEN acc
    ELSE LET std == standardConfigs[acc.standardIdx + 1]
         IN  IF Skipped(std, nodeRank)
             THEN FillGaps(standardConfigs, nodeRank,
                           [ result |-> Append(acc.result, GhostOf[std]),
                             standardIdx |-> acc.standardIdx + 1 ])
             ELSE IF std.Rank = nodeRank
             THEN [ acc EXCEPT !.standardIdx = @ + 1 ]
             ELSE acc

RECURSIVE InjectFrom(_, _, _, _)
InjectFrom(shell, nodes, n, acc) ==
    LET standardConfigs == IF shell = "bash" THEN bashStandard ELSE zshStandard
    IN  IF n > Len(nodes)
        THEN \* append the remaining standard files
             FillGaps(standardConfigs, NonStandardRank, acc).result
        ELSE LET nodeRank == RankOf[shell][nodes[n].FilePath]
                 filled == IF nodeRank # NonStandardRank
                           THEN FillGaps(standardConfigs, nodeRank, acc)
                           ELSE acc
             IN  InjectFrom(shell, nodes, n + 1,
                            [ filled EXCEPT !.result = Append(@, nodes[n]) ])

\* 3. gap injection
injectMissingNodes(nodes) ==
    InjectFrom(detectShellFromNodes(nodes), nodes, 1,
               [ result |-> << >>, standardIdx |-> 0 ])

(***************************************************************************)
(* Analyze: after the loop.                                                *)
(***************************************************************************)
\* the AnalysisResult Analyze returns for the final snapshot and raw nodes
isLoginShell(nodes) ==
    \E n \in 1..Len(nodes) :
        ~nodes[n].NotExecuted /\ FileFacts[nodes[n].FilePath].login

\* per directory: the prefixes the priority check looks for
PriorityFacts ==
    [ v \in AllDirs |-> [ brew |-> HasPrefix(v, "/opt/homebrew"),
                          usrLocal |-> HasPrefix(v, "/usr/local/bin") ] ]

\* globalDiagnostics of Analyze
TraceDiagnostics(entries, cleanNodes) ==
    LET brewIdx == FirstIndex(entries, LAMBDA e : PriorityFacts[e.Value].brew)
        usrLocalIdx == FirstIndex(entries, LAMBDA e : PriorityFacts[e.Value].usrLocal)
    IN  << IF isLoginShell(cleanNodes)
           THEN "INFO: Detected as a LOGIN shell. This is typical for terminal startups on macOS."
           ELSE "INFO: Detected as an INTERACTIVE (non-login) shell.",
           "INFO: Trace Mode - showing PATH derived from shell config files." >>
        \o (IF brewIdx # 0 /\ usrLocalIdx # 0 /\ usrLocalIdx < brewIdx
            THEN << "ADVICE: /usr/local/bin appears before Homebrew in PATH." >>
            ELSE << >>)

AnalyzeResult(snapshot, nodes, fsys) ==
    LET entries == PostProcess([ i \in 1..Len(snapshot) |->
                                   [ snapshot[i] EXCEPT !.SymlinkPointsTo = -1 ] ],
                               fsys)
        fm == FilterMerge(AttributeEntries(nodes, entries), entries)
        cleanNodes == Renumber(injectMissingNodes(Renumber(fm.clean)))
    IN  [ PathEntries |-> fm.es,
          FlowNodes |-> cleanNodes,
          Diagnostics |-> TraceDiagnostics(fm.es, cleanNodes) ]

\* Analyze returns; its locals are gone
Finish ==
    /\ phase = "run"
    /\ fs' \in FileSystems
    /\ result' = AnalyzeResult(currentEntries, flowNodes, fs')
    /\ phase' = "done"
    /\ flowNodes' = << >>
    /\ lastFile' = ""
    /\ currentNode' = ""
    /\ lastPathStr' = ""
    /\ currentEntries' = << >>
    /\ fileStack' = << >>
    /\ evalContext' = EmptyMap
    /\ evalUsed' = EmptyMap
    /\ nodeCounter' = 0
    \* what the history records of the event loop ends with the loop
    /\ fired' = EmptyMap
    /\ lastEv' = [ File |-> "", PathChange |-> "" ]
    /\ UNCHANGED << initialPath, sessionPath, unified, nEvents, lastAssign, nApplied,
                    prevEntries, stayed, intro, replay, parsing, running, tui, gaps, which >>

(***************************************************************************)
(* AnalyzeUnified: the merge of the trace result with the live PATH.       *)
(***************************************************************************)
\* tracedPaths[value]: the first trace-derived entry with that value
TracedEntry(traced, value) == traced[FirstIndex(traced, LAMBDA t : t.Value = value)]

\* variant: no allow-list, what the trace does not explain is session-only
UnifiedEntry_NoAllowList(traced, pathValue) ==
    IF pathValue \in Values(traced)
    THEN [ TracedEntry(traced, pathValue) EXCEPT
             !.SymlinkPointsTo = -1, !.IsDuplicate = FALSE, !.DuplicateOf = 0 ]
    ELSE [ PathEntry(pathValue, SessionFile, 0, "Session", "session-node")
             EXCEPT !.SymlinkPointsTo = -1, !.IsSessionOnly = TRUE ]

\* the entry built for one directory of the live PATH
UnifiedEntry(traced, pathValue) ==
    IF pathValue \in Values(traced)
    THEN [ TracedEntry(traced, pathValue) EXCEPT
             !.SymlinkPointsTo = -1, !.IsDuplicate = FALSE, !.DuplicateOf = 0 ]
    ELSE IF isLikelySystemPath(pathValue)
    THEN [ PathEntry(pathValue, SystemDefault, 0, "System", NodeID(0))
             EXCEPT !.SymlinkPointsTo = -1 ]
    ELSE [ PathEntry(pathValue, SessionFile, 0, "Session", "session-node")
             EXCEPT !.SymlinkPointsTo = -1, !.IsSessionOnly = TRUE ]

\* variant: a directory the live PATH repeats is taken once
UnifiedEntries_Unique(traced, live) ==
    LET parts == NonEmptyParts(live)
        keep == SelectSeq([ i \in 1..Len(parts) |-> i ],
                          LAMBDA i : \A j \in 1..(i - 1) : parts[j] # parts[i])
    IN  [ k \in 1..Len(keep) |-> UnifiedEntry(traced, parts[keep[k]]) ]

\* the loop over the live PATH's directories
UnifiedEntries(traced, live) ==
    LET parts == NonEmptyParts(live)
    IN  [ i \in 1..Len(parts) |-> UnifiedEntry(traced, parts[i]) ]

\* the 0-based indices of the entries satisfying Test, in increasing order
IndicesWhere(entries, Test(_)) ==
    LET hit == SelectSeq([ i \in 1..Len(entries) |-> i ], LAMBDA i : Test(entries[i]))
    IN  [ k \in 1..Len(hit) |-> hit[k] - 1 ]

IsSystemAttributed(e) == e.FlowID = NodeID(0) /\ e.SourceFile = SystemDefault

\* variant: the session node lists positions counted from one
sessionOnlyEntries_OneBased(ues) ==
    LET zeroBased == IndicesWhere(ues, LAMBDA e : e.IsSessionOnly)
    IN  [ k \in 1..Len(zeroBased) |-> zeroBased[k] + 1 ]

sessionOnlyEntries(ues) == IndicesWhere(ues, LAMBDA e : e.IsSessionOnly)

systemNodeEntries(ues) ==
    IndicesWhere(ues, LAMBDA e : ~e.IsSessionOnly /\ IsSystemAttributed(e))

\* pathToUnifiedIdx: value -> the unified indices of the entries the trace
\* explains, in increasing order
pathToUnifiedIdx(ues) ==
    [ v \in { ues[i].Value : i \in { j \in 1..Len(ues) :
                    ~ues[j].IsSessionOnly /\ ~IsSystemAttributed(ues[j]) } } |->
        IndicesWhere(ues, LAMBDA e : /\ e.Value = v
                                     /\ ~e.IsSessionOnly
                                     /\ ~IsSystemAttributed(e)) ]

RECURSIVE RemapEntries(_, _, _, _)
\* the loop over one node's old entries from position k on;
\* acc = [newEntries, p2u], each match consuming the first index left
RemapEntries(old, k, traced, acc) ==
    IF k > Len(old) THEN acc
    ELSE LET oldIdx == old[k]
             pathValue == traced[oldIdx + 1].Value
         IN  IF /\ oldIdx < Len(traced)
                /\ pathValue \in DOMAIN acc.p2u
                /\ Len(acc.p2u[pathValue]) > 0
             THEN RemapEntries(old, k + 1, traced,
                      [ newEntries |-> Append(acc.newEntries, Head(acc.p2u[pathValue])),
                        p2u |-> [ acc.p2u EXCEPT ![pathValue] = Tail(@) ] ])
             ELSE RemapEntries(old, k + 1, traced, acc)

RECURSIVE RemapNodes(_, _, _, _, _)
\* the loop over the flow nodes from node n on; acc = [nodes, p2u]
RemapNodes(nodes, n, traced, sysEntries, acc) ==
    IF n > Len(nodes) THEN acc.nodes
    ELSE LET r == RemapEntries(nodes[n].Entries, 1, traced,
                               [ newEntries |-> << >>, p2u |-> acc.p2u ])
             newEntries == IF nodes[n].FilePath = SystemDefault
                           THEN r.newEntries \o sysEntries
                           ELSE r.newEntries
         IN  RemapNodes(nodes, n + 1, traced, sysEntries,
                        [ nodes |-> Append(acc.nodes,
                                           [ nodes[n] EXCEPT !.Entries = newEntries ]),
                          p2u |-> r.p2u ])

\* variant: the session node is put in front of every node
InsertSessionNode_Front(nodes, sessionOnly) ==
    LET sessionNode == ConfigNode("session-node", SessionFile, 0, 0, FALSE, sessionOnly)
    IN  IF Len(sessionOnly) > 0
        THEN Renumber(<< sessionNode >> \o nodes)
        ELSE nodes

\* the session node grafted after "System (Default)", orders renumbered
InsertSessionNode(nodes, sessionOnly) ==
    LET sessionNode == ConfigNode("session-node", SessionFile, 0, 0, FALSE, sessionOnly)
        insertPos == FirstIndex(nodes, LAMBDA nd : nd.FilePath = SystemDefault)
    IN  IF Len(sessionOnly) > 0
        THEN Renumber(SubSeq(nodes, 1, insertPos) \o << sessionNode >>
                        \o SubSeq(nodes, insertPos + 1, Len(nodes)))
        ELSE nodes

\* the AnalysisResult AnalyzeUnified returns
UnifiedResult(live, traceResult, fsys) ==
    LET ues == UnifiedEntries(traceResult.PathEntries, live)
        remapped == RemapNodes(traceResult.FlowNodes, 1, traceResult.PathEntries,
                               systemNodeEntries(ues),
                               [ nodes |-> << >>, p2u |-> pathToUnifiedIdx(ues) ])
    IN  [ PathEntries |-> PostProcess(ues, fsys),
          FlowNodes |-> InsertSessionNode(remapped, sessionOnlyEntries(ues)),
          Diagnostics |->
              << "INFO: Unified view - showing your actual PATH with full attribution.",
                 "INFO: Entries marked as 'Session' were added manually or by tools (not from shell config files)." >> ]

\* AnalyzeUnified(sessionPath, events): Analyze has run on the sandbox
\* baseline, the merge with the live PATH follows
Unify ==
    /\ phase = "done"
    /\ initialPath = SandboxInitialPath
    /\ sessionPath' \in LivePaths
    /\ unified' = UnifiedResult(sessionPath', result, fs)
    /\ phase' = "unified"
    /\ UNCHANGED << initialPath, locals, fs, result, history, replay, parsing,
                    running, tui, gaps, which >>

(***************************************************************************)
(* Analyze run a second time on the same event list.                       *)
(***************************************************************************)
\* the longest event list that is analysed twice
MaxReplayEvents == 2

\* variant: the node counter lives on between two runs
InitialLocals_KeptCounter(path) ==
    [ flowNodes |-> BaselineNodes(path), lastFile |-> "", currentNode |-> "",
      lastPathStr |-> path, currentEntries |-> BaselineEntries(path),
      fileStack |-> << >>, evalContext |-> EmptyMap, evalUsed |-> EmptyMap,
      nodeCounter |-> nEvents ]

\* the locals of Analyze when its event loop starts
InitialLocals(path) ==
    [ flowNodes |-> BaselineNodes(path), lastFile |-> "", currentNode |-> "",
      lastPathStr |-> path, currentEntries |-> BaselineEntries(path),
      fileStack |-> << >>, evalContext |-> EmptyMap, evalUsed |-> EmptyMap,
      nodeCounter |-> 0 ]

RECURSIVE RunEvents(_, _, _)
\* "for _, ev := range events" from position i on
RunEvents(st, evs, i) ==
    IF i > Len(evs) THEN st ELSE RunEvents(StepEvent(st, evs[i]), evs, i + 1)

\* Analyze(events, initialPath) against the filesystem fsys
Analyze(evs, path, fsys) ==
    LET st == RunEvents(InitialLocals(path), evs, 1)
    IN  AnalyzeResult(st.currentEntries, st.flowNodes, fsys)

\* one event of a trace that will be analysed again
RecordEvent(ev) ==
    /\ Len(events) < MaxReplayEvents
    /\ ProcessEvent(ev)
    /\ events' = Append(events, ev)

\* the second call of Analyze, same events, same baseline, same filesystem
Rerun ==
    /\ phase = "done"
    /\ rerun' = Analyze(events, initialPath, fs)
    /\ phase' = "again"
    /\ UNCHANGED << initialPath, locals, fs, result, sessionPath, unified, history,
                    events, parsing, running, tui, gaps, which >>

NextReplay ==
    \/ \E ev \in TraceEvents : RecordEvent(ev)
    \/ Finish
    \/ Rerun

SpecReplay == Init /\ [][NextReplay]_vars

\* one event of a trace that is analysed once
TraceStep(ev) == ProcessEvent(ev) /\ UNCHANGED events

Next ==
    \/ \E ev \in TraceEvents : TraceStep(ev)
    \/ Finish
    \/ Unify

Spec == Init /\ [][Next]_vars

(***************************************************************************)
(* The trace parser.                                                       *)
(***************************************************************************)
\* the largest int; the build's int is 64 bits wide, the model's is 16
MaxInt == 32767

CharAt(s, i) == SubSeq(s, i, i)

Digits == { "0", "1", "2", "3", "4", "5", "6", "7", "8", "9" }

DigitValue(c) ==
    CASE c = "0" -> 0 [] c = "1" -> 1 [] c = "2" -> 2 [] c = "3" -> 3 [] c = "4" -> 4
      [] c = "5" -> 5 [] c = "6" -> 6 [] c = "7" -> 7 [] c = "8" -> 8 [] c = "9" -> 9

RECURSIVE AtoiFrom(_, _, _)
\* the value of the digits from position i on, acc being the value so far;
\* a value out of range is reported as the largest int
AtoiFrom(s, i, acc) ==
    IF i > Len(s) THEN acc
    ELSE IF acc > (MaxInt - DigitValue(CharAt(s, i))) \div 10 THEN MaxInt
    ELSE AtoiFrom(s, i + 1, acc * 10 + DigitValue(CharAt(s, i)))

\* "lineNum, _ := strconv.Atoi(lineNumStr)": the value strconv.Atoi returns
\* beside its error: 0 after a syntax error, the largest int after a range
\* error
Atoi(s) ==
    IF s = "" \/ \E i \in 1..Len(s) : CharAt(s, i) \notin Digits THEN 0
    ELSE AtoiFrom(s, 1, 0)

\* the first position >= from where the character is c, 0 if none
FirstAt(s, c, from) ==
    IF \E i \in from..Len(s) : CharAt(s, i) = c
    THEN CHOOSE i \in from..Len(s) :
             CharAt(s, i) = c /\ \A j \in from..(i - 1) : CharAt(s, j) # c
    ELSE 0

NoMatch == [ ok |-> FALSE, file |-> "", num |-> "", cmd |-> "" ]

\* "([^:]+):(\d+)>(.*)" matched from position q on
MatchFrom(line, q) ==
    LET colon == FirstAt(line, ":", q)
        gt == FirstAt(line, ">", colon + 1)
    IN  IF /\ colon > q
           /\ gt > colon + 1
           /\ \A i \in (colon + 1)..(gt - 1) : CharAt(line, i) \in Digits
        THEN [ ok |-> TRUE,
               file |-> SubSeq(line, q, colon - 1),
               num |-> SubSeq(line, colon + 1, gt - 1),
               cmd |-> SubSeq(line, gt + 1, Len(line)) ]
        ELSE NoMatch

\* "\+(?: )?" at position p: the optional space is taken when the rest
\* then matches
MatchAtPlus(line, p) ==
    IF CharAt(line, p + 1) = " " /\ MatchFrom(line, p + 2).ok
    THEN MatchFrom(line, p + 2)
    ELSE MatchFrom(line, p + 1)

\* p.re.FindStringSubmatch(line): the greedy ".*" settles on the last '+'
\* from which the rest matches
FindStringSubmatch(line) ==
    LET viable == { p \in 1..Len(line) :
                      CharAt(line, p) = "+" /\ MatchAtPlus(line, p).ok }
    IN  IF viable = { } THEN NoMatch
        ELSE MatchAtPlus(line, CHOOSE p \in viable : \A q \in viable : q <= p)

\* strings.Index(s, sub), counted from 0, -1 if absent
Index(s, sub) ==
    LET hits == { i \in 1..(Len(s) - Len(sub) + 1) :
                    SubSeq(s, i, i + Len(sub) - 1) = sub }
    IN  IF hits = { } THEN -1
        ELSE (CHOOSE i \in hits : \A j \in hits : i <= j) - 1

TrimPrefix(s, pre) == IF HasPrefix(s, pre) THEN SubSeq(s, Len(pre) + 1, Len(s)) ELSE s

TrimSuffix(s, suf) == IF HasSuffix(s, suf) THEN SubSeq(s, 1, Len(s) - Len(suf)) ELSE s

cleanPathValue(v) ==
    TrimSuffix(TrimPrefix(TrimSuffix(TrimPrefix(v, "'"), "'"), "\""), "\"")

\* the PATH= detection: the first occurrence of "PATH=" decides
PathChangeOf(cmd) ==
    LET idx == Index(cmd, "PATH=")
        before == CharAt(cmd, idx)
        valid == \/ idx = 0
                 \/ /\ idx > 0
                    /\ (before = " " \/ HasSuffix(SubSeq(cmd, 1, idx), "export "))
                    /\ IF before # " " THEN before = " " \/ before = ";" ELSE TRUE
    IN  IF idx # -1 /\ valid
        THEN cleanPathValue(SubSeq(cmd, idx + 6, Len(cmd)))
        ELSE ""

\* the event built from a matched line
EventOf(m) ==
    [ File |-> m.file, Line |-> Atoi(m.num), RawCommand |-> m.cmd,
      PathChange |-> PathChangeOf(m.cmd) ]

\* The trace lines the parser is given: a zsh line and a bash line that
\* assign PATH, a PATH assignment after another assignment, one followed by
\* a further word, a quoted one, one after a ';', the tail of a longer
\* identifier, a line number beyond the integer range, a line that is no
\* trace line, and program output with a trace line behind it on one line.
TraceLines ==
    { "+ /etc/zprofile:5>export PATH=/opt/tool",
      "+/home/u/.bashrc:5>export PATH=\"/opt/tool\"",
      "+ /home/u/.zshrc:2>MANPATH=/m PATH=/opt/tool",
      "+ /home/u/.zshrc:5>PATH=/opt/tool ls",
      "+ /etc/zprofile:2>PATH='/usr/bin:/bin'",
      "+ /etc/zprofile:2>cd /;PATH=/opt/tool",
      "+ /home/u/.zshrc:2>MYPATH=/m",
      "+ /etc/zprofile:99999>echo hi",
      "zsh: command not found: foo",
      "hi+ /etc/zprofile:5>echo hi" }

\* the trace lines of a run: their events are events of TraceEvents
RunLines ==
    { "+ /etc/zprofile:5>export PATH=/opt/tool",
      "+ /home/u/.zshrc:2>export PATH=/usr/bin:/bin:/opt/tool",
      "+ /home/u/.zshrc:5>echo hi",
      "zsh: command not found: foo" }

MaxLines == 2

StreamsOver(lines) ==
    UNION { [ 1..n -> lines ] : n \in 0..MaxLines }

\* what one pass of the scanner loop makes of each line, computed once
ParsedLine ==
    [ l \in TraceLines \cup RunLines |->
        LET m == FindStringSubmatch(l)
        IN  IF m.ok THEN [ ok |-> TRUE, num |-> m.num, event |-> EventOf(m) ]
            ELSE [ ok |-> FALSE, num |-> "", event |-> "none" ] ]

\* "errs := make(chan error, 1)"
ErrCapacity == 1

\* the deferred closes run in the order of their registration
DeferredCloses_Registration == << "events", "errs" >>

\* "defer close(events); defer close(errs)": the channels in the order the
\* deferred closes run, the last one registered first
DeferredCloses == << "errs", "events" >>

\* a send on the error channel completes without a receiver
CanSendErr_Unbuffered(ch) == Len(ch) < 0

CanSendErr(ch) == Len(ch) < ErrCapacity

\* Parse has returned both channels and its goroutine starts scanning
ParserStart(lines) ==
    /\ stream \in StreamsOver(lines)
    /\ ending \in { "eof", "error" }
    /\ pc = "scan"
    /\ pending = << >>
    /\ errs = << >>
    /\ closed = { }
    /\ scanned = << >>
    /\ received = << >>
    /\ errSent = 0

analysis ==
    << phase, initialPath, locals, fs, result, sessionPath, unified, history, replay >>

\* scanner.Scan() returns a line: a matched line makes an event to send
ScanLine ==
    /\ pc = "scan"
    /\ stream # << >>
    /\ scanned' = Append(scanned, Head(stream))
    /\ stream' = Tail(stream)
    /\ IF ParsedLine[Head(stream)].ok
       THEN pending' = << ParsedLine[Head(stream)].event >> /\ pc' = "send"
       ELSE pending' = pending /\ pc' = "scan"
    /\ UNCHANGED << ending, errs, closed, received, errSent, analysis, running, tui, gaps, which >>

\* scanner.Scan() returns false: at the end of the input or after a failed
\* read, which scanner.Err() then reports
ScanEnd ==
    /\ pc = "scan"
    /\ stream = << >>
    /\ pc' = IF ending = "error" THEN "sendErr" ELSE "closeErrs"
    /\ UNCHANGED << stream, ending, pending, errs, closed, scanned, received,
                    errSent, analysis, running, tui, gaps, which >>

\* "events <- event" on the unbuffered channel, met by the consumer's
\* receive
Deliver ==
    /\ pc = "send"
    /\ rpc \in { "free", "collect" }
    /\ received' = received \o pending
    /\ pending' = << >>
    /\ pc' = "scan"
    /\ UNCHANGED << stream, ending, errs, closed, scanned, errSent, analysis, running, tui, gaps, which >>

\* "errs <- err"
SendErr ==
    /\ pc = "sendErr"
    /\ CanSendErr(errs)
    /\ errs' = Append(errs, "read error")
    /\ errSent' = errSent + 1
    /\ pc' = "closeErrs"
    /\ UNCHANGED << stream, ending, pending, closed, scanned, received, analysis, running, tui, gaps, which >>

\* the deferred close(errs), which runs first
CloseErrs ==
    /\ pc = "closeErrs"
    /\ closed' = closed \cup { DeferredCloses[1] }
    /\ pc' = "closeEvents"
    /\ UNCHANGED << stream, ending, pending, errs, scanned, received, errSent,
                    analysis, running, tui, gaps, which >>

\* the deferred close(events)
CloseEvents ==
    /\ pc = "closeEvents"
    /\ closed' = closed \cup { DeferredCloses[2] }
    /\ pc' = "done"
    /\ UNCHANGED << stream, ending, pending, errs, scanned, received, errSent,
                    analysis, running, tui, gaps, which >>

\* a consumer that receives from the error channel
RecvErr ==
    /\ rpc = "free"
    /\ errs # << >>
    /\ errs' = Tail(errs)
    /\ UNCHANGED << stream, ending, pc, pending, closed, scanned, received, errSent,
                    analysis, running, tui, gaps, which >>

\* the steps the producer takes alone
Producer == ScanLine \/ ScanEnd \/ SendErr \/ CloseErrs \/ CloseEvents

InitParser ==
    /\ AnalyzeInit
    /\ initialPath = SandboxInitialPath
    /\ ParserStart(TraceLines)
    /\ rpc = "free"
    /\ runMode = "none"
    /\ output = << >>
    /\ TuiIdle
    /\ GapsIdle
    /\ WhichIdle

NextParser ==
    \/ ScanLine
    \/ ScanEnd
    \/ Deliver
    \/ SendErr
    \/ CloseErrs
    \/ CloseEvents
    \/ RecvErr

\* the parser with a consumer free to receive or not; a goroutine that can
\* run is run
SpecParser == InitParser /\ [][NextParser]_vars /\ WF_vars(Producer)

(***************************************************************************)
(* The report, JSON and web runs: each collects the parser's events,       *)
(* starts a goroutine that empties the error channel, analyses and writes. *)
(***************************************************************************)
RunModes == { "report", "json", "web" }

\* "for ev := range events" ends: the events channel is closed and empty
RangeEnd ==
    /\ rpc = "collect"
    /\ "events" \in closed
    /\ rpc' = "analyze"
    /\ UNCHANGED << runMode, output, analysis, parsing, tui, gaps, which >>

\* "go func() { for range errs { } }()": an error received is dropped
Drain ==
    /\ rpc \in { "analyze", "done" }
    /\ errs # << >>
    /\ errs' = Tail(errs)
    /\ UNCHANGED << stream, ending, pc, pending, closed, scanned, received, errSent,
                    analysis, running, tui, gaps, which >>

\* what the run hands to its caller: the analysis result written as a
\* report, as JSON or as the web response, its exit or HTTP status, and the
\* errors it writes
Delivered(runmode, res) ==
    [ mode |-> runmode, status |-> "ok", result |-> res, errors |-> << >> ]

\* AnalyzeUnified(sessionPath, allEvents) and the writing of the result
Deliveries(live, fsys) ==
    << Delivered(runMode,
                 UnifiedResult(live, Analyze(received, SandboxInitialPath, fsys), fsys)) >>

AnalyzeAndWrite ==
    /\ rpc = "analyze"
    /\ \E live \in LivePaths, fsys \in FileSystems :
           /\ sessionPath' = live
           /\ fs' = fsys
           /\ output' = Deliveries(live, fsys)
    /\ rpc' = "done"
    /\ UNCHANGED << phase, initialPath, locals, result, unified, history, replay,
                    parsing, runMode, tui, gaps, which >>

InitRun ==
    /\ AnalyzeInit
    /\ initialPath = SandboxInitialPath
    /\ ParserStart(RunLines)
    /\ rpc = "collect"
    /\ runMode \in RunModes
    /\ output = << >>
    /\ TuiIdle
    /\ GapsIdle
    /\ WhichIdle

NextRun ==
    \/ ScanLine
    \/ ScanEnd
    \/ Deliver
    \/ SendErr
    \/ CloseErrs
    \/ CloseEvents
    \/ RangeEnd
    \/ Drain
    \/ AnalyzeAndWrite

SpecRun == InitRun /\ [][NextRun]_vars

(***************************************************************************)
(* The TUI: AppModel.Update on the trace result and on key messages.       *)
(***************************************************************************)
MaxNodes == 2

MaxEntries == 1

\* textinput's CharLimit, scaled down
MaxInput == 1

\* the step of a page key
PageStep == 10

Keys ==
    { "q", " ", "?", "esc", "up", "down", "pgup", "pgdown", "tab", "d", "f", "F", "w",
      "c", "v", "enter", "backspace" }

\* the input buffer after a key: a character is appended up to the limit,
\* backspace removes one, any other key leaves the text
InputAfter(n, k) ==
    IF k = "backspace" THEN (IF n > 0 THEN n - 1 ELSE 0)
    ELSE IF Len(k) = 1 THEN (IF n < MaxInput THEN n + 1 ELSE n)
    ELSE n

\* performSearch(): an empty term shows every entry again, another term
\* shows the found entries; the selection is brought back into the list
performSearch(a, found) ==
    LET filtered == IF a.InputLen = 0 THEN a.Entries ELSE found
        selected == IF a.SelectedIdx >= filtered
                    THEN (IF filtered > 0 THEN filtered - 1 ELSE 0)
                    ELSE a.SelectedIdx
    IN  [ a EXCEPT !.SearchActive = (a.InputLen # 0),
                   !.Filtered = filtered,
                   !.SelectedIdx = selected ]

\* the key handling in input mode
InputKey(a, k, found) ==
    IF k = "enter" THEN performSearch([ a EXCEPT !.InputMode = FALSE ], found)
    ELSE IF k = "esc"
    THEN performSearch([ a EXCEPT !.InputMode = FALSE, !.SearchActive = FALSE,
                                  !.InputLen = 0 ], found)
    ELSE [ a EXCEPT !.InputLen = InputAfter(a.InputLen, k) ]

\* the key handling while the help dialog is shown
HelpKey(a, k) ==
    IF k \in { "?", "h", "esc", "q" } THEN [ a EXCEPT !.ShowHelp = FALSE ] ELSE a

\* the key handling while the diagnostics popup is shown
PopupKey(a, k) ==
    IF k \in { "d", "esc", "q" } THEN [ a EXCEPT !.ShowDiagnosticsPopup = FALSE ]
    ELSE IF k = "v" THEN [ a EXCEPT !.DiagnosticsVerbose = ~a.DiagnosticsVerbose ]
    ELSE a

\* an index moved down by a page and capped at the last element
PageDown(idx, n) == IF idx + PageStep >= n THEN n - 1 ELSE idx + PageStep

\* the keys of the main switch
MainKey(a, k) ==
    CASE k \in { "ctrl+c", "q" } -> [ a EXCEPT !.Quit = TRUE ]
      [] k = " " ->
            IF a.ShowFlow
            THEN IF a.RightPanelFocus = "FocusFilePreview" THEN a
                 ELSE [ a EXCEPT !.FlowSelectedIdx = PageDown(a.FlowSelectedIdx, a.Nodes) ]
            ELSE IF a.NormalRightFocus THEN a
            ELSE [ a EXCEPT !.SelectedIdx = PageDown(a.SelectedIdx, a.Filtered) ]
      [] k \in { "?", "h" } -> [ a EXCEPT !.ShowHelp = TRUE ]
      [] k = "esc" ->
            IF a.SearchActive
            THEN performSearch([ a EXCEPT !.InputMode = FALSE, !.SearchActive = FALSE,
                                          !.InputLen = 0 ], 0)
            ELSE IF a.ShowFlow
            THEN [ a EXCEPT !.ShowFlow = FALSE, !.CumulativeFlow = FALSE ]
            ELSE a
      [] k \in { "up", "k" } ->
            IF a.ShowFlow
            THEN IF a.RightPanelFocus # "FocusFilePreview" /\ a.FlowSelectedIdx > 0
                 THEN [ a EXCEPT !.FlowSelectedIdx = a.FlowSelectedIdx - 1 ]
                 ELSE a
            ELSE IF ~a.NormalRightFocus /\ a.SelectedIdx > 0
                 THEN [ a EXCEPT !.SelectedIdx = a.SelectedIdx - 1 ]
                 ELSE a
      [] k \in { "down", "j" } ->
            IF a.ShowFlow
            THEN IF a.RightPanelFocus # "FocusFilePreview"
                    /\ a.FlowSelectedIdx < a.Nodes - 1
                 THEN [ a EXCEPT !.FlowSelectedIdx = a.FlowSelectedIdx + 1 ]
                 ELSE a
            ELSE IF ~a.NormalRightFocus /\ a.SelectedIdx < a.Filtered - 1
                 THEN [ a EXCEPT !.SelectedIdx = a.SelectedIdx + 1 ]
                 ELSE a
      [] k = "pgup" ->
            IF ~a.ShowFlow /\ ~a.NormalRightFocus
            THEN [ a EXCEPT !.SelectedIdx =
                       IF a.SelectedIdx - PageStep < 0 THEN 0 ELSE a.SelectedIdx - PageStep ]
            ELSE a
      [] k = "pgdown" ->
            IF ~a.ShowFlow /\ ~a.NormalRightFocus
            THEN [ a EXCEPT !.SelectedIdx = PageDown(a.SelectedIdx, a.Filtered) ]
            ELSE a
      [] k = "tab" ->
            IF a.ShowFlow
            THEN [ a EXCEPT !.RightPanelFocus =
                       IF a.RightPanelFocus = "FocusFlowList"
                       THEN "FocusFilePreview" ELSE "FocusFlowList" ]
            ELSE [ a EXCEPT !.NormalRightFocus = ~a.NormalRightFocus ]
      [] k = "d" -> [ a EXCEPT !.ShowDiagnosticsPopup = TRUE ]
      [] k = "f" ->
            [ a EXCEPT !.ShowFlow = ~a.ShowFlow,
                       !.CumulativeFlow = ~a.ShowFlow,
                       !.ShowDiagnostics = FALSE,
                       !.FlowSelectedIdx =
                           IF a.Nodes > 0 /\ a.FlowSelectedIdx >= a.Nodes
                           THEN 0 ELSE a.FlowSelectedIdx ]
      [] k = "F" ->
            IF ~a.CumulativeFlow
            THEN [ a EXCEPT !.CumulativeFlow = TRUE, !.ShowFlow = TRUE,
                            !.ShowDiagnostics = FALSE ]
            ELSE [ a EXCEPT !.CumulativeFlow = FALSE ]
      [] k = "w" -> [ a EXCEPT !.InputMode = TRUE, !.InputLen = 0 ]
      [] OTHER -> a

\* Update on a key message
UpdateKey(a, k, found) ==
    IF a.InputMode THEN InputKey(a, k, found)
    ELSE IF a.ShowHelp THEN HelpKey(a, k)
    ELSE IF a.ShowDiagnosticsPopup THEN PopupKey(a, k)
    ELSE MainKey(a, k)

\* the program has started and the trace runs in the background
TuiStart ==
    /\ app = InitialModel
    /\ lastKey = ""
    /\ held = Shown(InitialModel)

\* Update on MsgTraceReady: the result is taken over, every entry is shown
TraceReady ==
    /\ app.Loading
    /\ ~app.Quit
    /\ \E nodes \in 0..MaxNodes, entries \in 0..MaxEntries :
           app' = [ app EXCEPT !.Loading = FALSE,
                               !.Nodes = nodes,
                               !.Entries = entries,
                               !.Filtered = entries,
                               !.SelectedIdx = IF entries > 0 THEN 0 ELSE app.SelectedIdx ]
    /\ UNCHANGED << lastKey, held, analysis, parsing, running, gaps, which >>

\* Update on a key message
KeyMsg ==
    /\ ~app.Quit
    /\ \E k \in Keys, found \in 0..app.Entries :
           /\ app' = UpdateKey(app, k, found)
           /\ lastKey' = k
    /\ held' = Shown(app)
    /\ UNCHANGED << analysis, parsing, running, gaps, which >>

InitTui ==
    /\ AnalyzeInit
    /\ initialPath = SandboxInitialPath
    /\ ParserIdle
    /\ TuiStart
    /\ GapsIdle
    /\ WhichIdle

NextTui == TraceReady \/ KeyMsg

SpecTui == InitTui /\ [][NextTui]_vars

(***************************************************************************)
(* Gap injection on its own.                                               *)
(***************************************************************************)
\* the longest node list handed to gap injection
MaxGapNodes == 3

\* The cleaned, renumbered node lists of at most MaxGapNodes nodes: no two
\* neighbours of one file, the baseline's node first if at all, and entries
\* wherever the filter demands them.
GapInputs ==
    LET lists == UNION { [ 1..n -> GapFiles ] : n \in 0..MaxGapNodes }
        clean == { l \in lists :
                     /\ \A k \in 1..(Len(l) - 1) : l[k] # l[k + 1]
                     /\ \A k \in 2..Len(l) : l[k] # SystemDefault }
    IN  { [ k \in 1..Len(l) |->
              ConfigNode(IF l[k] = SystemDefault THEN NodeID(0) ELSE NodeID(k), l[k], k, 0,
                         FALSE,
                         IF FileFacts[l[k]].isImportant THEN << >> ELSE << k - 1 >>) ] :
          l \in clean }

\* cleanNodes = injectMissingNodes(cleanNodes)
Inject ==
    /\ placed = << >>
    /\ placed' = << injectMissingNodes(given) >>
    /\ UNCHANGED << given, analysis, parsing, running, tui, which >>

InitGaps ==
    /\ AnalyzeInit
    /\ initialPath = SandboxInitialPath
    /\ ParserIdle
    /\ TuiIdle
    /\ given \in GapInputs
    /\ placed = << >>
    /\ WhichIdle

NextGaps == Inject

SpecGaps == InitGaps /\ [][NextGaps]_vars

(***************************************************************************)
(* The TUI's trace command: the consumer that ranges over the events and   *)
(* then receives once from the error channel.                              *)
(***************************************************************************)
\* "for ev := range events" ends: the events channel is closed and empty
RangeDone ==
    /\ rpc = "collect"
    /\ "events" \in closed
    /\ rpc' = "wait"
    /\ UNCHANGED << runMode, output, analysis, parsing, tui, gaps, which >>

\* "if e := <-errs; e != nil { log.Printf(...) }", then the analysis and
\* MsgTraceReady: the receive takes the buffered error, or nil from the
\* closed empty channel, and blocks otherwise
WaitErrs ==
    /\ rpc = "wait"
    /\ errs # << >> \/ "errs" \in closed
    /\ errs' = IF errs # << >> THEN Tail(errs) ELSE errs
    /\ \E fsys \in FileSystems :
           output' = << [ mode |-> runMode, status |-> "ok",
                          result |-> Analyze(received, SandboxInitialPath, fsys),
                          errors |-> IF errs # << >> THEN << Head(errs) >> ELSE << >> ] >>
    /\ rpc' = "done"
    /\ UNCHANGED << phase, initialPath, locals, fs, result, sessionPath, unified, history,
                    replay, stream, ending, pc, pending, closed, scanned, received,
                    errSent, runMode, tui, gaps, which >>

\* "for ev := range events": the consumer receives until the channel is
\* closed
Ranging == Deliver \/ RangeDone

InitHandoff ==
    /\ AnalyzeInit
    /\ initialPath = SandboxInitialPath
    /\ ParserStart(RunLines)
    /\ rpc = "collect"
    /\ runMode = "tui"
    /\ output = << >>
    /\ TuiIdle
    /\ GapsIdle
    /\ WhichIdle

NextHandoff ==
    \/ ScanLine
    \/ ScanEnd
    \/ Deliver
    \/ SendErr
    \/ CloseErrs
    \/ CloseEvents
    \/ RangeDone
    \/ WaitErrs

\* the parser and the trace command's consumer: a producer that can run is
\* run, and the consumer keeps receiving from the events channel
SpecHandoff ==
    InitHandoff /\ [][NextHandoff]_vars /\ WF_vars(Producer) /\ WF_vars(Ranging)

(***************************************************************************)
(* AnalyzeSessionPath: the live PATH analysed without a trace, as the web  *)
(* server's 'which' endpoint does, beside AnalyzeUnified on the same PATH. *)
(***************************************************************************)
\* the longest event list of the trace analysed beside the session
MaxSessionEvents == 2

CurrentSession == "Current Session"

\* variant: SymlinkPointsTo is left at Go's zero value
SessionEntry_ZeroValue(pathValue) ==
    PathEntry(pathValue, CurrentSession, 0, "Session", NodeID(0))

\* the entry built for one directory of the PATH
SessionEntry(pathValue) ==
    [ PathEntry(pathValue, CurrentSession, 0, "Session", NodeID(0))
        EXCEPT !.SymlinkPointsTo = -1 ]

\* variant: an empty segment makes an entry too
SessionEntries_All(currentPath) ==
    LET parts == Split(currentPath)
    IN  [ i \in 1..Len(parts) |-> SessionEntry(parts[i]) ]

\* the loop over the PATH's directories, empty segments skipped
SessionEntries(currentPath) ==
    LET parts == NonEmptyParts(currentPath)
    IN  [ i \in 1..Len(parts) |-> SessionEntry(parts[i]) ]

\* the AnalysisResult AnalyzeSessionPath returns
AnalyzeSessionPath(currentPath, fsys) ==
    LET entries == PostProcess(SessionEntries(currentPath), fsys)
    IN  [ PathEntries |-> entries,
          FlowNodes |-> << ConfigNode(NodeID(0), CurrentSession, 0, 0, FALSE,
                                      [ i \in 1..Len(entries) |-> i - 1 ]) >>,
          Diagnostics |->
              << "INFO: Showing current session PATH. Use --trace flag to see where paths originate from shell config files." >> ]

\* handleWhich: result := analyzer.AnalyzeSessionPath(os.Getenv("PATH"))
Which ==
    /\ phase = "unified"
    /\ session = << >>
    /\ session' = << AnalyzeSessionPath(sessionPath, fs) >>
    /\ UNCHANGED << analysis, parsing, running, tui, gaps >>

InitSession == Init /\ initialPath = SandboxInitialPath

NextSession ==
    \/ \E ev \in TraceEvents : nEvents < MaxSessionEvents /\ TraceStep(ev)
    \/ Finish
    \/ Unify
    \/ Which

SpecSession == InitSession /\ [][NextSession]_vars

(***************************************************************************)
(* Properties.                                                             *)
(***************************************************************************)
EntryValues(entries) == [ i \in 1..Len(entries) |-> entries[i].Value ]

ColonAt(s, i) == SubSeq(s, i, i) = ":"

\* the positions where a directory of a PATH string begins
DirectoryStarts(s) ==
    { i \in 1..Len(s) : ~ColonAt(s, i) /\ (i = 1 \/ ColonAt(s, i - 1)) }

\* the directory that begins at position i: up to the next colon or the end
DirectoryAt(s, i) ==
    SubSeq(s, i, CHOOSE j \in i..Len(s) :
                    /\ \A k \in i..j : ~ColonAt(s, k)
                    /\ (j = Len(s) \/ ColonAt(s, j + 1)))

\* the directories of a PATH string in order, repeats kept
Directories(s) ==
    LET starts == DirectoryStarts(s)
        nth(n) == CHOOSE i \in starts : Cardinality({ j \in starts : j < i }) = n - 1
    IN  [ n \in 1..Cardinality(starts) |-> DirectoryAt(s, nth(n)) ]

DirectoriesOf == [ p \in EventPaths \cup Baselines \cup LivePaths |-> Directories(p) ]

Returned == phase \in { "done", "unified" }

\* C1: the entries Analyze returns are, in number, order and value, the
\* non-empty ':'-separated segments of the last PATH assignment the events
\* carry, the baseline counting as the first assignment.
C1_EntriesAreLastAssignment ==
    Returned => EntryValues(result.PathEntries) = DirectoriesOf[lastAssign]

\* C1 witness: Analyze has returned after two applied assignments, the last
\* one with empty segments and a repeated directory.
C1_Witness ==
    /\ phase = "done"
    /\ nApplied = 2
    /\ lastAssign = ":~/bin::/home/u/bin:~/bin:"
    /\ Len(result.PathEntries) = 3

SameAttribution(a, b) ==
    a.SourceFile = b.SourceFile /\ a.LineNumber = b.LineNumber

\* C2: after each applied assignment, every entry of the new snapshot whose
\* value occurs in the snapshot before it carries the sourceFile and
\* lineNumber of the entries with that value there.
C2_AttributionStable ==
    (phase = "run" /\ nApplied >= 1) =>
        \A i \in 1..Len(currentEntries) : \A j \in 1..Len(prevEntries) :
            prevEntries[j].Value = currentEntries[i].Value
                => SameAttribution(currentEntries[i], prevEntries[j])

NodeIDs(nodes) == { nodes[n].ID : n \in 1..Len(nodes) }

NodeWithID(nodes, id) == nodes[FirstIndex(nodes, LAMBDA nd : nd.ID = id)]

\* an entry whose value came with the baseline and stayed is the system's
BaselineKept(e) ==
    (initialPath # "" /\ e.Value \in stayed) =>
        /\ e.SourceFile = SystemDefault
        /\ e.LineNumber = 0
        /\ e.FlowID = "node-0"

\* an entry whose value an assignment introduced, no eval rule applying
Introduced(e) == e.Value \in DOMAIN intro /\ ~intro[e.Value].Eval

\* such an entry carries the file and the line of the introducing event
IntroducedAt(e) ==
    Introduced(e) =>
        /\ e.SourceFile = intro[e.Value].File
        /\ e.LineNumber = intro[e.Value].Line

\* the first scenario: baseline /usr/bin:/bin, one event at /etc/zprofile:5
\* assigning /usr/bin:/bin:/opt/tool
FirstScenario ==
    /\ initialPath = "/usr/bin:/bin"
    /\ nEvents = 1
    /\ lastAssign = "/usr/bin:/bin:/opt/tool"
    /\ "/opt/tool" \in DOMAIN intro
    /\ intro["/opt/tool"].File = "/etc/zprofile"
    /\ intro["/opt/tool"].Line = 5

FirstScenarioResult ==
    [ i \in 1..Len(result.PathEntries) |->
        << result.PathEntries[i].Value, result.PathEntries[i].SourceFile,
           result.PathEntries[i].LineNumber >> ]
    = << << "/usr/bin", SystemDefault, 0 >>,
         << "/bin", SystemDefault, 0 >>,
         << "/opt/tool", "/etc/zprofile", 5 >> >>

\* C3 as stated: in Analyze's result an entry whose value came with the
\* baseline and stayed through every assignment is credited to
\* "System (Default)", line 0, node-0; an entry whose value was absent before
\* the assignment that introduced it is credited to that event's file and
\* line (no eval rule applying) and to the flow node current at that event.
\* The first scenario is one instance.
C3_CurrentNode ==
    Returned =>
        /\ \A i \in 1..Len(result.PathEntries) :
              LET e == result.PathEntries[i]
              IN  /\ BaselineKept(e)
                  /\ IntroducedAt(e)
                  /\ Introduced(e) => e.FlowID = intro[e.Value].Node
        /\ FirstScenario => FirstScenarioResult

\* C3 amended: as stated, except for the flow node: the entry is credited to
\* the node current at the introducing event when the cleaned flow keeps
\* that node, and otherwise to the node for the same file that the cleanup
\* merged it into.
C3_Attribution ==
    Returned =>
        /\ \A i \in 1..Len(result.PathEntries) :
              LET e == result.PathEntries[i]
              IN  /\ BaselineKept(e)
                  /\ IntroducedAt(e)
                  /\ Introduced(e) =>
                         /\ e.FlowID \in NodeIDs(result.FlowNodes)
                         /\ NodeWithID(result.FlowNodes, e.FlowID).FilePath
                                = intro[e.Value].File
                         /\ \/ e.FlowID = intro[e.Value].Node
                            \/ intro[e.Value].Node \notin NodeIDs(result.FlowNodes)
        /\ FirstScenario => FirstScenarioResult

\* C3 witness: the first scenario has run: baseline /usr/bin:/bin, one event
\* at /etc/zprofile:5 assigning /usr/bin:/bin:/opt/tool.
C3_Witness ==
    /\ phase = "done"
    /\ FirstScenario
    /\ stayed = { "/usr/bin", "/bin" }
    /\ Len(result.PathEntries) = 3
    /\ result.PathEntries[3].FlowID = intro["/opt/tool"].Node

\* the lists both analyses return
ResultLists ==
    (IF Returned THEN { result.PathEntries } ELSE { })
    \cup (IF phase = "unified" THEN { unified.PathEntries } ELSE { })

SameDirectory(es, i, j) == Normalized[es[i].Value] = Normalized[es[j].Value]

\* C4 as stated: for every pair i < j of entries with equal normalized
\* values, entry j is marked duplicate with duplicateOf = i.
C4_EveryEarlierPair ==
    \A es \in ResultLists : \A j \in 1..Len(es) : \A i \in 1..(j - 1) :
        SameDirectory(es, i, j) => es[j].IsDuplicate /\ es[j].DuplicateOf = i - 1

\* C4 amended: for every pair i < j of entries with equal normalized values,
\* entry j is marked duplicate and its duplicateOf is the lowest index with
\* that value (i itself when i is the first occurrence); no entry is marked
\* duplicate of an entry at its own or a later index.
C4_FirstOccurrence ==
    \A es \in ResultLists : \A j \in 1..Len(es) :
        /\ \A i \in 1..(j - 1) :
              SameDirectory(es, i, j) =>
                 /\ es[j].IsDuplicate
                 /\ es[j].DuplicateOf + 1 <= i
                 /\ SameDirectory(es, es[j].DuplicateOf + 1, j)
                 /\ \A k \in 1..es[j].DuplicateOf : ~SameDirectory(es, k, j)
        /\ es[j].IsDuplicate => es[j].DuplicateOf < j - 1

\* C4 witness: a returned list holds the same directory three times and the
\* second and the third entry are duplicates of the first.
C4_Witness ==
    /\ phase = "done"
    /\ Len(result.PathEntries) = 3
    /\ SameDirectory(result.PathEntries, 1, 2)
    /\ SameDirectory(result.PathEntries, 1, 3)
    /\ result.PathEntries[2].IsDuplicate
    /\ result.PathEntries[3].IsDuplicate
    /\ result.PathEntries[3].DuplicateOf = 0

\* the canonical table gap injection selects for a node sequence
SelectedTable(nodes) ==
    IF detectShellFromNodes(SelectSeq(nodes, LAMBDA nd : ~nd.NotExecuted)) = "bash"
    THEN bashStandard ELSE zshStandard

\* the nodes that stand for the canonical file with this suffix
Representing(nodes, suffix) ==
    { n \in 1..Len(nodes) : HasSuffix(nodes[n].FilePath, suffix) }

\* C5: in Analyze's result every canonical configuration file of the
\* selected shell family is represented by exactly one node, real or
\* placeholder.
C5_ExactlyOneNode ==
    Returned =>
        \A k \in 1..Len(SelectedTable(result.FlowNodes)) :
            Cardinality(Representing(result.FlowNodes,
                                     SelectedTable(result.FlowNodes)[k].PathSuffix)) = 1

Unified == phase = "unified"

\* C6: the entries AnalyzeUnified returns have, in order, exactly the values
\* of the non-empty ':'-separated segments of the live PATH, repeats kept,
\* whatever the trace contains.
C6_UnifiedIsLivePath ==
    Unified => EntryValues(unified.PathEntries) = DirectoriesOf[sessionPath]

\* C6 witness: AnalyzeUnified has returned for a live PATH with empty
\* segments, after a trace that assigned PATH.
C6_Witness ==
    /\ Unified
    /\ nApplied >= 1
    /\ sessionPath = ":/usr/bin::/usr/local/bin:"
    /\ Len(unified.PathEntries) = 2

TracedValues == { result.PathEntries[i].Value : i \in 1..Len(result.PathEntries) }

InAllowList(v) ==
    v \in { "/usr/local/sbin", "/usr/local/bin", "/usr/sbin", "/usr/bin", "/sbin", "/bin",
            "/usr/games", "/usr/local/games", "/snap/bin", "/opt/local/bin",
            "/opt/local/sbin" }

NodesFor(nodes, file) == { n \in 1..Len(nodes) : nodes[n].FilePath = file }

Listed(node) == { node.Entries[k] : k \in 1..Len(node.Entries) }

\* C7: in AnalyzeUnified's result every live-PATH directory that matches no
\* trace-derived entry and is in the allow-list of OS-default directories is
\* attributed to "System (Default)", node-0, is not session-only, and its
\* index is listed in the entries of the "System (Default)" flow node.
C7_AllowListIsSystem ==
    Unified =>
        \A i \in 1..Len(unified.PathEntries) :
            LET e == unified.PathEntries[i]
            IN  (e.Value \notin TracedValues /\ InAllowList(e.Value)) =>
                   /\ e.SourceFile = SystemDefault
                   /\ e.FlowID = "node-0"
                   /\ ~e.IsSessionOnly
                   /\ \E n \in NodesFor(unified.FlowNodes, SystemDefault) :
                         (i - 1) \in Listed(unified.FlowNodes[n])

\* C7 witness: the live PATH holds /usr/local/bin, the trace never had it,
\* and the entry is credited to the system.
C7_Witness ==
    /\ Unified
    /\ "/usr/local/bin" \notin TracedValues
    /\ \E i \in 1..Len(unified.PathEntries) :
          /\ unified.PathEntries[i].Value = "/usr/local/bin"
          /\ unified.PathEntries[i].SourceFile = SystemDefault

SessionOnlyIndices ==
    { i - 1 : i \in { j \in 1..Len(unified.PathEntries) :
                        unified.PathEntries[j].IsSessionOnly } }

Increasing(seq) == \A k \in 1..(Len(seq) - 1) : seq[k] < seq[k + 1]

\* C8: in AnalyzeUnified's result an entry is session-only, with sourceFile
\* "Session (Manual/Runtime)" and flowID "session-node", exactly when its
\* value matches no trace-derived entry and is not in the allow-list; a
\* "Session (Manual/Runtime)" node exists exactly when some entry is
\* session-only, and its entries are the session-only indices, increasing.
C8_SessionOnly ==
    Unified =>
        /\ \A i \in 1..Len(unified.PathEntries) :
              LET e == unified.PathEntries[i]
                  unexplained == e.Value \notin TracedValues /\ ~InAllowList(e.Value)
              IN  /\ e.IsSessionOnly <=> unexplained
                  /\ e.SourceFile = SessionFile <=> unexplained
                  /\ e.FlowID = "session-node" <=> unexplained
        /\ (NodesFor(unified.FlowNodes, SessionFile) # { }) <=> (SessionOnlyIndices # { })
        /\ Cardinality(NodesFor(unified.FlowNodes, SessionFile)) <= 1
        /\ \A n \in NodesFor(unified.FlowNodes, SessionFile) :
              /\ Listed(unified.FlowNodes[n]) = SessionOnlyIndices
              /\ Len(unified.FlowNodes[n].Entries) = Cardinality(SessionOnlyIndices)
              /\ Increasing(unified.FlowNodes[n].Entries)

\* C8 witness: the live PATH carries a virtual-environment directory twice,
\* around directories the trace explains; the session node lists both.
C8_Witness ==
    /\ Unified
    /\ sessionPath = "/venv/bin:/usr/bin:/bin:/venv/bin"
    /\ \E n \in NodesFor(unified.FlowNodes, SessionFile) :
          unified.FlowNodes[n].Entries = << 0, 3 >>

\* the positions of the trace-derived entries with this value, in order
TracedWith(v) ==
    SelectSeq([ i \in 1..Len(result.PathEntries) |-> i ],
              LAMBDA i : result.PathEntries[i].Value = v)

\* which occurrence of its value the live directory at position i is
Occurrence(i) ==
    Cardinality({ k \in 1..i : unified.PathEntries[k].Value = unified.PathEntries[i].Value })

\* C9: each trace-derived entry supplies its attribution to at most one
\* live-PATH entry: the j-th occurrence of a value in the live PATH takes
\* the attribution of the j-th trace-derived entry with that value, and the
\* occurrences beyond those fall through to the allow-list / session-only
\* rules.
C9_MatchConsumed ==
    Unified =>
        \A i \in 1..Len(unified.PathEntries) :
            LET e == unified.PathEntries[i]
                from == TracedWith(e.Value)
                j == Occurrence(i)
            IN  IF j <= Len(from)
                THEN /\ e.SourceFile = result.PathEntries[from[j]].SourceFile
                     /\ e.LineNumber = result.PathEntries[from[j]].LineNumber
                     /\ e.FlowID = result.PathEntries[from[j]].FlowID
                ELSE IF InAllowList(e.Value)
                THEN e.SourceFile = SystemDefault /\ ~e.IsSessionOnly
                ELSE e.SourceFile = SessionFile /\ e.IsSessionOnly

\* C10: in AnalyzeUnified's result the "System (Default)" node is the first
\* flow node, with order 1; when some entry is session-only the
\* "Session (Manual/Runtime)" node is the second, with order 2, before
\* every configuration-file node and placeholder; and the order fields are
\* 1..N in sequence position, with or without a session node.
C10_SystemFirstSessionSecond ==
    Unified =>
        /\ Len(unified.FlowNodes) >= 1
        /\ unified.FlowNodes[1].FilePath = SystemDefault
        /\ unified.FlowNodes[1].Order = 1
        /\ (SessionOnlyIndices # { }) =>
              /\ Len(unified.FlowNodes) >= 2
              /\ unified.FlowNodes[2].FilePath = SessionFile
              /\ unified.FlowNodes[2].Order = 2
        /\ \A n \in 1..Len(unified.FlowNodes) : unified.FlowNodes[n].Order = n

\* C10 witness: a result with a session node, an executed configuration file
\* and placeholders.
C10_Witness ==
    /\ Unified
    /\ SessionOnlyIndices # { }
    /\ unified.FlowNodes[2].ID = "session-node"
    /\ \E n \in 3..Len(unified.FlowNodes) :
          /\ ~unified.FlowNodes[n].NotExecuted
          /\ unified.FlowNodes[n].FilePath = "/etc/zprofile"
    /\ \E n \in 3..Len(unified.FlowNodes) : unified.FlowNodes[n].NotExecuted

\* the nodes whose entries list this 0-based index
Listing(nodes, idx) == { n \in 1..Len(nodes) : idx \in Listed(nodes[n]) }

\* how often a node's entries name the index
TimesListed(node, idx) ==
    Cardinality({ k \in 1..Len(node.Entries) : node.Entries[k] = idx })

\* C11: in AnalyzeUnified's result each unified entry index is listed by
\* exactly one flow node, once; every index a node lists is an index of the
\* unified list; and the node that lists an index is the node the entry's
\* flowID names.
C11_EachIndexInOneNode ==
    Unified =>
        /\ \A i \in 1..Len(unified.PathEntries) :
              /\ Cardinality(Listing(unified.FlowNodes, i - 1)) = 1
              /\ \A n \in Listing(unified.FlowNodes, i - 1) :
                    /\ TimesListed(unified.FlowNodes[n], i - 1) = 1
                    /\ unified.FlowNodes[n].ID = unified.PathEntries[i].FlowID
        /\ \A n \in 1..Len(unified.FlowNodes) :
              \A idx \in Listed(unified.FlowNodes[n]) :
                  idx \in 0..(Len(unified.PathEntries) - 1)

\* every returned pair of entry list and flow-node list
ResultPairs ==
    (IF Returned THEN { result } ELSE { })
    \cup (IF Unified THEN { unified } ELSE { })

\* C12: in every result of Analyze and of AnalyzeUnified the flowID of every
\* path entry is the id of a flow node of the returned flowNodes.
C12_FlowIDNamesANode ==
    \A r \in ResultPairs : \A i \in 1..Len(r.PathEntries) :
        r.PathEntries[i].FlowID \in NodeIDs(r.FlowNodes)

\* C12 witness: AnalyzeUnified has returned with a session-only entry and
\* with an entry whose introducing node the cleanup merged away.
C12_Witness ==
    /\ Unified
    /\ SessionOnlyIndices # { }
    /\ \E i \in 1..Len(result.PathEntries) :
          /\ Introduced(result.PathEntries[i])
          /\ intro[result.PathEntries[i].Value].Node \notin NodeIDs(result.FlowNodes)
          /\ result.PathEntries[i].Value \in
                { unified.PathEntries[j].Value : j \in 1..Len(unified.PathEntries) }

\* C15: in every result of Analyze and of AnalyzeUnified no two consecutive
\* flow nodes have the same filePath.
C15_NoAdjacentSameFile ==
    \A r \in ResultPairs : \A n \in 1..(Len(r.FlowNodes) - 1) :
        r.FlowNodes[n].FilePath # r.FlowNodes[n + 1].FilePath

\* C15 witness: Analyze has returned a flow with two nodes for one file,
\* separated by a sourced script that was retained, after three events.
C15_Witness ==
    /\ phase = "done"
    /\ nEvents = 3
    /\ \E a, b, c \in 1..Len(result.FlowNodes) :
          /\ a < b /\ b < c
          /\ result.FlowNodes[a].FilePath = "/home/u/.zshrc"
          /\ result.FlowNodes[b].FilePath = "/home/u/.nvm/nvm.sh"
          /\ result.FlowNodes[c].FilePath = "/home/u/.zshrc"

\* entry i of the list is the first one to hold its directory
FirstOfItsValue(es, i) == \A j \in 1..(i - 1) : ~SameDirectory(es, j, i)

\* entry i is a symbolic link on disk whose one-level target is the
\* directory that entry k, not a link itself, holds
LinkTo(es, i, k) ==
    /\ IsSymlinkOnDisk(fs, Normalized[es[i].Value])
    /\ ~IsSymlinkOnDisk(fs, Normalized[es[k].Value])
    /\ LinkTarget(fs, Normalized[es[i].Value]) = Normalized[es[k].Value]

\* C13: in the post-processor an entry i whose value did not occur earlier,
\* that is a symlink, and whose one-level target is the normalized value of
\* a directory entry at an earlier index k (its first occurrence) ends with
\* isSymlink = true, symlinkPointsTo = k and isDuplicate = false, whatever
\* lies between k and i.
C13_SymlinkPointsToDirectory ==
    \A es \in ResultLists : \A i \in 1..Len(es) : \A k \in 1..(i - 1) :
        (FirstOfItsValue(es, i) /\ FirstOfItsValue(es, k) /\ LinkTo(es, i, k)) =>
            /\ es[i].IsSymlink
            /\ es[i].SymlinkPointsTo = k - 1
            /\ ~es[i].IsDuplicate

IsAssignmentAt(cmd, i) ==
    /\ SubSeq(cmd, i, i + 4) = "PATH="
    /\ (i = 1 \/ CharAt(cmd, i - 1) \in { " ", "\t", ";" })

HasAssignment(cmd) == \E i \in 1..(Len(cmd) - 4) : IsAssignmentAt(cmd, i)

\* C16: every event the parser handed over reports a PATH change exactly
\* when its command holds "PATH=" at its start, after whitespace or after
\* ';', whichever occurrence that is.
C16_ReportsEveryAssignment ==
    \A k \in 1..Len(received) :
        (received[k].PathChange # "") <=> HasAssignment(received[k].RawCommand)

Quotes == { "'", "\"" }

\* the shell token a text starts with: up to the closing quote of a quoted
\* word, up to the first blank otherwise
ShellToken(rhs) ==
    IF rhs # "" /\ CharAt(rhs, 1) \in Quotes
    THEN LET close == FirstAt(rhs, CharAt(rhs, 1), 2)
         IN  IF close = 0 THEN rhs ELSE SubSeq(rhs, 1, close)
    ELSE LET blank == FirstAt(rhs, " ", 1)
         IN  IF blank = 0 THEN rhs ELSE SubSeq(rhs, 1, blank - 1)

\* one layer of surrounding quotes removed
Unquoted(t) ==
    IF Len(t) >= 2 /\ CharAt(t, 1) \in Quotes /\ CharAt(t, Len(t)) = CharAt(t, 1)
    THEN SubSeq(t, 2, Len(t) - 1)
    ELSE t

\* the text after the "PATH=" the parser detected
AssignedText(cmd) == SubSeq(cmd, Index(cmd, "PATH=") + 6, Len(cmd))

\* C17: the PATH change of every event handed over is the shell token after
\* "PATH=", further words of the command left out, with one layer of
\* surrounding quotes removed.
C17_ValueIsOneToken ==
    \A k \in 1..Len(received) :
        received[k].PathChange # "" =>
            received[k].PathChange =
                Unquoted(ShellToken(AssignedText(received[k].RawCommand)))

RECURSIVE DecimalValue(_)
DecimalValue(num) ==
    IF num = "" THEN 0
    ELSE 10 * DecimalValue(SubSeq(num, 1, Len(num) - 1)) + DigitValue(CharAt(num, Len(num)))

\* the digits name a value of the integer type
Representable(num) == Len(num) <= 5 /\ DecimalValue(num) <= MaxInt

\* the scanned lines the expression matched, in order
MatchedLines == SelectSeq(scanned, LAMBDA l : ParsedLine[l].ok)

\* C20: every matched line is emitted as an event, the parse going on after
\* it, and the event of a line whose number is beyond the integer type
\* carries line 0.
C20_UnparsableLineIsZero ==
    /\ Len(MatchedLines) = Len(received) + (IF pc = "send" THEN 1 ELSE 0)
    /\ \A k \in 1..Len(received) :
           ~Representable(ParsedLine[MatchedLines[k]].num) => received[k].Line = 0

BothClosed == closed = { "errs", "events" }

\* C19: at most one error is ever sent on the error channel, whose buffer
\* holds it, and a producer about to report a read error goes on to close
\* both channels, whatever the consumer receives.
C19_ErrorSendCompletes ==
    /\ [](errSent <= 1 /\ Len(errs) <= ErrCapacity)
    /\ (pc = "sendErr" ~> BothClosed)

\* the producer has reported a read error that no consumer received, and
\* has closed both channels
C19_Witness ==
    /\ pc = "done"
    /\ BothClosed
    /\ errSent = 1
    /\ errs = << "read error" >>


\* the events of the lines scanned before the stream ended
EventsScanned == [ k \in 1..Len(MatchedLines) |-> ParsedLine[MatchedLines[k]].event ]

\* the run's output or status shows that the trace was incomplete
FailureShown(o) == o.status # "ok" \/ o.errors # << >>

\* C18: a run whose trace stream failed with a read error after some events
\* has analysed the events parsed before the failure, and its output or
\* status shows the failure.
C18_FailureSurfaced ==
    (rpc = "done" /\ ending = "error" /\ received # << >>) =>
        /\ output[1].result =
               UnifiedResult(sessionPath, Analyze(EventsScanned, SandboxInitialPath, fs), fs)
        /\ FailureShown(output[1])


\* the last message was this key, pressed in Flow Mode with no dialog, popup
\* or input line open
PressedInFlowMode(k) ==
    /\ lastKey = k
    /\ held.ShowFlow
    /\ ~held.Modal

\* C21: a press of 'c' in Flow Mode flips CumulativeFlow and leaves Flow
\* Mode and the flow selection as they were.
C21_KeyCTogglesCumulative ==
    PressedInFlowMode("c") =>
        /\ app.CumulativeFlow = ~held.CumulativeFlow
        /\ app.ShowFlow = held.ShowFlow
        /\ app.FlowSelectedIdx = held.FlowSelectedIdx


\* C22: in every result an entry is marked duplicate exactly when an earlier
\* entry has the same normalized value, and its duplicateOf is then the
\* lowest index with that value, whose entry is not marked duplicate.
C22_FirstOccurrenceWins ==
    \A es \in ResultLists : \A j \in 1..Len(es) :
        /\ es[j].IsDuplicate <=> ~FirstOfItsValue(es, j)
        /\ es[j].IsDuplicate =>
               \E i \in 1..(j - 1) :
                   /\ SameDirectory(es, i, j)
                   /\ FirstOfItsValue(es, i)
                   /\ es[j].DuplicateOf = i - 1
                   /\ ~es[i].IsDuplicate

\* C22 witness: one file set PATH=/opt/tool and then
\* PATH=/opt/tool:/usr/bin:/opt/tool, and the third entry of the result is
\* a duplicate of index 0.
C22_Witness ==
    /\ phase = "done"
    /\ nApplied = 2
    /\ nEvents = 2
    /\ lastAssign = "/opt/tool:/usr/bin:/opt/tool"
    /\ EntryValues(prevEntries) = << "/opt/tool" >>
    /\ Len(result.PathEntries) = 3
    /\ result.PathEntries[3].IsDuplicate
    /\ result.PathEntries[3].DuplicateOf = 0
    /\ ~result.PathEntries[1].IsDuplicate


\* the snapshot's entries whose value an assignment introduced
FromAssignment == { i \in 1..Len(currentEntries) : currentEntries[i].Value \in DOMAIN intro }

\* how the value of entry i came in
IntroOf(i) == intro[currentEntries[i].Value]

\* C23: every entry created by a PATH change made while the event's file had
\* an unused eval recorded on an earlier line carries the file of the event
\* and the line of the eval.
C23_NewEntriesAtEvalLine ==
    \A i \in FromAssignment :
        IntroOf(i).Eval =>
            /\ currentEntries[i].SourceFile = IntroOf(i).File
            /\ currentEntries[i].LineNumber = IntroOf(i).EvalLine

\* C24: per file, at most one PATH change is credited to an eval between
\* two evals of that file; an entry brought in when the file's eval was
\* used already, or was on no earlier line, carries the event's own line;
\* and an entry carries either its event's line or the line of the eval
\* recorded for its event's own file.
C24_EvalFiresOnce ==
    /\ \A f \in DOMAIN fired : fired[f] <= 1
    /\ \A i \in FromAssignment :
          /\ currentEntries[i].SourceFile = IntroOf(i).File
          /\ ~IntroOf(i).Eval => currentEntries[i].LineNumber = IntroOf(i).Line
          /\ currentEntries[i].LineNumber # IntroOf(i).Line =>
                /\ IntroOf(i).File \in DOMAIN evalContext
                /\ currentEntries[i].LineNumber = IntroOf(i).EvalLine

\* C24 witness: after an eval on line 2 of a file, a first PATH change on its
\* line 5 was credited to the eval and a second one brought in an entry
\* that carries line 5.
C24_Witness ==
    /\ phase = "run"
    /\ nEvents = 3
    /\ nApplied = 2
    /\ \E f \in DOMAIN fired :
          /\ fired[f] = 1
          /\ evalContext[f] = 2
          /\ \E i, j \in FromAssignment :
                /\ IntroOf(i).File = f /\ IntroOf(i).Eval
                /\ currentEntries[i].LineNumber = 2
                /\ IntroOf(j).File = f /\ ~IntroOf(j).Eval
                /\ currentEntries[j].LineNumber = 5


\* the base name of a file is one of the canonical configuration files
CanonicalName(file) ==
    LET parts == SlashSplit(file, 1, 1)
    IN  parts[Len(parts)] \in
            { "zshenv", ".zshenv", "zprofile", ".zprofile", "zshrc", ".zshrc", "zlogin",
              ".zlogin", "bash_profile", ".bash_profile", "bashrc", ".bashrc",
              "bash.bashrc", "profile", ".profile", "bash_login" }

\* a fresh top-level script: canonical, and no cargo or nvm continuation
FreshTopLevel(file) ==
    CanonicalName(file) /\ ~Contains(file, "cargo") /\ ~Contains(file, "nvm")

FreshTopLevelFiles == { f \in Files : FreshTopLevel(f) }

\* the stack cut so that its element at position k is on top
CutAt(stack, k) == SubSeq(stack, 1, k)

\* the step is a file switch that was not ignored
Switched == phase = "run" /\ phase' = "run" /\ lastFile' # lastFile

NoisyFiles ==
    { f \in Files : HasPrefix(f, "/usr/share/zsh") \/ HasPrefix(f, "/etc/zshrc_Apple_Terminal") }

\* the step consumes an event
Consumed == phase = "run" /\ phase' = "run" /\ nEvents' = nEvents + 1

\* the values the step brought into the snapshot
Fresh(after, earlier) == { i \in 1..Len(after) : after[i].Value \notin Values(earlier) }

\* C26: an event of a noisy-internal file that carries no PATH change leaves
\* the flow nodes, the nesting stack, the last-file marker, the current node
\* and the snapshot as they were; an event of such a file that carries a
\* PATH change, coming from another file, emits a node for the file, and
\* the entries the change creates carry the file and that node.
C26_NoisyIgnored ==
    /\ [][ (Consumed /\ lastEv'.File \in NoisyFiles /\ lastEv'.PathChange = "") =>
              UNCHANGED << flowNodes, fileStack, lastFile, currentNode, currentEntries,
                           lastPathStr, nodeCounter >> ]_vars
    /\ [][ (Consumed /\ lastEv'.File \in NoisyFiles /\ lastEv'.PathChange # ""
              /\ lastFile # lastEv'.File) =>
              /\ Len(flowNodes') = Len(flowNodes) + 1
              /\ flowNodes'[Len(flowNodes')].FilePath = lastEv'.File
              /\ currentNode' = flowNodes'[Len(flowNodes')].ID
              /\ lastFile' = lastEv'.File
              /\ \A i \in Fresh(currentEntries', currentEntries) :
                    /\ currentEntries'[i].SourceFile = lastEv'.File
                    /\ currentEntries'[i].FlowID = currentNode' ]_vars

\* C26 witness: after an event of ~/.zshrc an event of a zsh function file
\* without PATH change was consumed, and ~/.zshrc is still the last file and
\* the only node.
C26_Witness ==
    /\ phase = "run"
    /\ initialPath = ""
    /\ nEvents = 2
    /\ lastEv = [ File |-> "/usr/share/zsh/functions/add-zsh-hook", PathChange |-> "" ]
    /\ lastFile = "/home/u/.zshrc"
    /\ Len(flowNodes) = 1
    /\ fileStack = << "/home/u/.zshrc" >>

\* the canonical configuration files among the traced files
CanonicalFiles == { f \in Files : CanonicalName(f) }

\* the files of the non-placeholder nodes of a node list
ExecutedFiles(nodes) ==
    { nodes[n].FilePath : n \in { k \in 1..Len(nodes) : ~nodes[k].NotExecuted } }

\* the step on which Analyze cleans the reconstructed nodes and returns
Returning == phase = "run" /\ phase' = "done"

\* C27: in every Analyze result every non-placeholder node whose file is
\* neither a canonical configuration file nor 'System (Default)' has at
\* least one entry, and every canonical configuration file for which the
\* reconstruction emitted a node is the file of a non-placeholder node of
\* the result, entries or not.
C27_EmptyNodesOnlyCanonical ==
    [][ Returning =>
          /\ \A n \in 1..Len(result'.FlowNodes) :
                LET nd == result'.FlowNodes[n]
                IN  ( /\ ~nd.NotExecuted
                      /\ nd.FilePath \notin CanonicalFiles
                      /\ nd.FilePath # SystemDefault ) => nd.Entries # << >>
          /\ \A k \in 1..Len(flowNodes) :
                flowNodes[k].FilePath \in CanonicalFiles =>
                    flowNodes[k].FilePath \in ExecutedFiles(result'.FlowNodes) ]_vars

\* C27 witness: Analyze has returned; the nvm script had brought in a
\* directory that a later assignment removed, so that its node was left
\* without entries, and the result has no node for that script; and the
\* result has a non-placeholder node without entries for a canonical file.
C27_Witness ==
    /\ phase = "done"
    /\ \E v \in DOMAIN intro :
          /\ intro[v].File = "/home/u/.nvm/nvm.sh"
          /\ \A i \in 1..Len(result.PathEntries) : result.PathEntries[i].Value # v
    /\ "/home/u/.nvm/nvm.sh" \notin ExecutedFiles(result.FlowNodes)
    /\ \E n \in 1..Len(result.FlowNodes) :
          /\ ~result.FlowNodes[n].NotExecuted
          /\ result.FlowNodes[n].FilePath \in CanonicalFiles
          /\ result.FlowNodes[n].Entries = << >>

\* C28: in every Analyze result the entries lists of the flow nodes
\* partition the indices of the returned entries: each index 0..n-1 is
\* listed by exactly one node, once, that node's id is the entry's flowID,
\* and no node lists anything else; so too after nodes for one file were
\* coalesced.
C28_EntriesPartitioned ==
    Returned =>
        /\ \A i \in 1..Len(result.PathEntries) :
              /\ Cardinality(Listing(result.FlowNodes, i - 1)) = 1
              /\ \A n \in Listing(result.FlowNodes, i - 1) :
                    /\ TimesListed(result.FlowNodes[n], i - 1) = 1
                    /\ result.FlowNodes[n].ID = result.PathEntries[i].FlowID
        /\ \A n \in 1..Len(result.FlowNodes) :
              Listed(result.FlowNodes[n]) \subseteq 0..(Len(result.PathEntries) - 1)

\* C28 witness: Analyze has returned, and entries that two different
\* reconstructed nodes introduced are listed by one node of the result,
\* the later node having been coalesced into the earlier.
C28_Witness ==
    /\ phase = "done"
    /\ \E i, j \in 1..Len(result.PathEntries) :
          LET e == result.PathEntries[i]
              l == result.PathEntries[j]
          IN  /\ Introduced(e) /\ Introduced(l)
              /\ intro[e.Value].Node # intro[l.Value].Node
              /\ e.FlowID = intro[e.Value].Node
              /\ l.FlowID = e.FlowID
              /\ \E n \in 1..Len(result.FlowNodes) :
                    { i - 1, j - 1 } \subseteq Listed(result.FlowNodes[n])

\* gap injection has returned
Injected == placed # << >>

RealNode(nd) == ~nd.NotExecuted

\* the rows of a rank table that a file path matches
RowsOf(table, path) == { k \in 1..Len(table) : HasSuffix(path, table[k].PathSuffix) }

Ranked(table, nd) == RowsOf(table, nd.FilePath) # { }

\* the canonical rank of a node that has one
CanonicalRank(table, nd) ==
    table[CHOOSE k \in RowsOf(table, nd.FilePath) :
              \A j \in RowsOf(table, nd.FilePath) : k <= j].Rank

\* the real nodes of a list that have a canonical rank above r
RealAbove(table, nodes, r) ==
    { n \in 1..Len(nodes) :
        /\ RealNode(nodes[n])
        /\ Ranked(table, nodes[n])
        /\ CanonicalRank(table, nodes[n]) > r }

\* the placeholders of the list are rows of the table in strictly
\* increasing rank, each before the first real node of greater canonical
\* rank, or after every real node when there is none
PlacedByRank(table, nodes) ==
    LET ghosts == { n \in 1..Len(nodes) : ~RealNode(nodes[n]) }
    IN  /\ \A g \in ghosts : Ranked(table, nodes[g])
        /\ \A g, h \in ghosts :
              g < h => CanonicalRank(table, nodes[g]) < CanonicalRank(table, nodes[h])
        /\ \A g \in ghosts :
              LET above == RealAbove(table, nodes, CanonicalRank(table, nodes[g]))
              IN  IF above = { }
                  THEN \A n \in 1..Len(nodes) : RealNode(nodes[n]) => n < g
                  ELSE \A n \in above : g < n

\* C29: gap injection returns its input's nodes unchanged and in order as
\* the non-placeholder nodes of its output; every placeholder is marked
\* not executed, has depth 0 and no entries; and for one of the two rank
\* tables the placeholders stand in strictly increasing rank, each before
\* the first real node of greater canonical rank, or after the last real
\* node when there is none.
C29_InjectionFrame ==
    Injected =>
        /\ SelectSeq(placed[1], RealNode) = given
        /\ \A n \in 1..Len(placed[1]) :
              ~RealNode(placed[1][n]) =>
                  /\ placed[1][n].NotExecuted = TRUE
                  /\ placed[1][n].Depth = 0
                  /\ placed[1][n].Entries = << >>
        /\ \/ PlacedByRank(zshStandard, placed[1])
           \/ PlacedByRank(bashStandard, placed[1])

\* C29 witness: the nvm script, /etc/zprofile and ~/.zshrc were handed in;
\* nine nodes came back, placeholders before, between and after the two
\* canonical files.
C29_Witness ==
    /\ Injected
    /\ [ k \in 1..Len(given) |-> given[k].FilePath ]
          = << "/home/u/.nvm/nvm.sh", "/etc/zprofile", "/home/u/.zshrc" >>
    /\ Len(placed[1]) = 9
    /\ [ k \in 1..9 |-> placed[1][k].NotExecuted ]
          = << FALSE, TRUE, TRUE, FALSE, TRUE, TRUE, FALSE, TRUE, TRUE >>

\* the files with a bash-family name, and those with a zsh-family name
BashNamed == { f \in GapFiles : Contains(f, "bash") }

ZshNamed == { f \in GapFiles : Contains(f, "zsh") }

\* how many executed nodes of the list have a file of the set
ExecutedIn(nodes, files) ==
    Cardinality({ n \in 1..Len(nodes) : RealNode(nodes[n]) /\ nodes[n].FilePath \in files })

\* the placeholders of the list are rows of the bash table
UsesBashTable(nodes) ==
    \E n \in 1..Len(nodes) : ~RealNode(nodes[n]) /\ Ranked(bashStandard, nodes[n])

\* C30: gap injection uses the bash rank table exactly when more executed
\* nodes have a bash-family file name than have a zsh-family file name, and
\* the zsh table otherwise.
C30_MajorityVote ==
    Injected =>
        ( UsesBashTable(placed[1])
            <=> ExecutedIn(given, BashNamed) > ExecutedIn(given, ZshNamed) )

\* the entry lists of the three analyses, as far as they have returned
EveryResultList ==
    ResultLists \cup (IF session # << >> THEN { session[1].PathEntries } ELSE { })

\* how many 'does not exist' diagnostics an entry carries
MissingNotes(e) ==
    Cardinality({ k \in 1..Len(e.Diagnostics) : e.Diagnostics[k] = MissingDiagnostic })

\* the entry's path, home directory expanded, is not on the disk
AbsentFromDisk(e) == NotExist(fs, Normalized[e.Value])

\* C31: in every result of Analyze, AnalyzeUnified and AnalyzeSessionPath
\* an entry whose normalized path is absent from disk carries exactly one
\* 'does not exist' diagnostic and an entry whose path exists carries
\* none; and no directory of the analysed PATH is lost to a failing probe.
C31_OneMissingDiagnostic ==
    /\ \A es \in EveryResultList : \A i \in 1..Len(es) :
          MissingNotes(es[i]) = IF AbsentFromDisk(es[i]) THEN 1 ELSE 0
    /\ Unified => Len(unified.PathEntries) = Len(DirectoriesOf[sessionPath])
    /\ session # << >> => Len(session[1].PathEntries) = Len(DirectoriesOf[sessionPath])

\* the consumer has seen the events channel closed and has not yet received
\* from the error channel
EventsSeenClosed == rpc = "wait"

\* the stream's error, if it ended in one
StreamError == IF ending = "error" THEN << "read error" >> ELSE << >>

\* C32: with a consumer that receives from the events channel until it is
\* closed, the producer terminates with both channels closed, whatever the
\* stream and its end; when the consumer sees the events channel closed, the
\* error channel is closed and holds the stream's error, if any; and the
\* consumer's one receive from it has given that error, or nil.
C32_HandoffProtocol ==
    /\ <>(pc = "done" /\ BothClosed)
    /\ [](EventsSeenClosed => "errs" \in closed /\ errs = StreamError)
    /\ [](rpc = "done" => output[1].errors = StreamError)

\* C32 witness: the stream failed after an event; the producer has closed
\* both channels, and the consumer, the range over, has received the error.
C32_Witness ==
    /\ rpc = "done"
    /\ pc = "done"
    /\ BothClosed
    /\ ending = "error"
    /\ received # << >>
    /\ errs = << >>
    /\ output[1].errors = << "read error" >>

\* the number of nesting markers the line starts with
RECURSIVE LeadingMarkers(_)
LeadingMarkers(l) ==
    IF l # "" /\ CharAt(l, 1) = "+" THEN 1 + LeadingMarkers(SubSeq(l, 2, Len(l))) ELSE 0

\* the text has the form file:line>command, a blank in front allowed
FileLineCommand(t) ==
    \E c \in 2..Len(t) : \E g \in (c + 2)..Len(t) :
        /\ CharAt(t, c) = ":"
        /\ CharAt(t, g) = ">"
        /\ \A i \in (c + 1)..(g - 1) : CharAt(t, i) \in Digits
        /\ SubSeq(t, 1, c - 1) # " "

\* the trace-marker shape: one or more leading nesting markers, then
\* file:line>command
Shaped(l) ==
    LeadingMarkers(l) >= 1 /\ FileLineCommand(SubSeq(l, LeadingMarkers(l) + 1, Len(l)))

ShapedLines == { l \in TraceLines \cup RunLines : Shaped(l) }

\* the scanned lines of that shape, in order
ShapedScanned == SelectSeq(scanned, LAMBDA l : l \in ShapedLines)

\* C33: the events handed over, with the one being sent, are one per
\* scanned line of the trace-marker shape, in the order of the lines, each
\* carrying its line's command; a line without the shape makes no event; and
\* no error is sent but for a failed read.
C33_OneEventPerShapedLine ==
    /\ Len(received \o pending) = Len(ShapedScanned)
    /\ \A k \in 1..Len(received \o pending) :
          k <= Len(ShapedScanned) =>
              HasSuffix(ShapedScanned[k], ">" \o (received \o pending)[k].RawCommand)
    /\ errSent > 0 => ending = "error"

\* C34: in every result of Analyze and of AnalyzeUnified the flowID of an
\* entry names a flow node, and the file path of every node with that id
\* is the entry's sourceFile.
C34_OwnerIsSourceFile ==
    \A r \in ResultPairs : \A i \in 1..Len(r.PathEntries) :
        /\ \E n \in 1..Len(r.FlowNodes) : r.FlowNodes[n].ID = r.PathEntries[i].FlowID
        /\ \A n \in 1..Len(r.FlowNodes) :
              r.FlowNodes[n].ID = r.PathEntries[i].FlowID =>
                  r.FlowNodes[n].FilePath = r.PathEntries[i].SourceFile

\* C34 witness: AnalyzeUnified has returned entries of the baseline, of the
\* session and of a traced file; the traced file's entry was brought in
\* under a node that the cleanup coalesced into an earlier one.
C34_Witness ==
    /\ Unified
    /\ nEvents = 3
    /\ { SystemDefault, SessionFile } \subseteq
          { unified.PathEntries[i].SourceFile : i \in 1..Len(unified.PathEntries) }
    /\ \E i \in 1..Len(unified.PathEntries) :
          LET e == unified.PathEntries[i]
          IN  /\ e.SourceFile \in Files
              /\ Introduced(e)
              /\ intro[e.Value].Node = NodeID(3)
              /\ e.FlowID = NodeID(1)

\* the files of the nodes emitted for events up to node n of the list
FilesUpTo(nodes, n) ==
    { nodes[k].FilePath : k \in { j \in 1..n : nodes[j].FilePath # SystemDefault } }

\* C35: throughout the reconstruction the nesting stack holds no file
\* twice; once a file switch was taken, the top of the stack is the file
\* of the node emitted last; and the depth of every node emitted for an
\* event is smaller than the number of distinct files of the nodes emitted
\* up to it.
C35_StackHasNoRepeats ==
    phase = "run" =>
        /\ \A i, j \in 1..Len(fileStack) : fileStack[i] = fileStack[j] => i = j
        /\ lastFile # "" =>
              /\ fileStack # << >>
              /\ fileStack[Len(fileStack)] = lastFile
              /\ flowNodes[Len(flowNodes)].FilePath = lastFile
        /\ \A n \in 1..Len(flowNodes) :
              flowNodes[n].FilePath # SystemDefault =>
                  flowNodes[n].Depth < Cardinality(FilesUpTo(flowNodes, n))

\* C35 witness: ~/.zshrc sourced the nvm script, one level down, and went
\* on: the stack was cut back to ~/.zshrc and three nodes were emitted.
C35_Witness ==
    /\ phase = "run"
    /\ initialPath = ""
    /\ Len(flowNodes) = 3
    /\ flowNodes[2].FilePath = "/home/u/.nvm/nvm.sh"
    /\ flowNodes[2].Depth = 1
    /\ flowNodes[3].Depth = 0
    /\ fileStack = << "/home/u/.zshrc" >>

\* entry i (0-based) of the list has consistent duplicate and symlink marks
MarksInRange(es, i) ==
    LET e == es[i + 1]
    IN  /\ e.IsDuplicate =>
              /\ 0 <= e.DuplicateOf /\ e.DuplicateOf < i
              /\ e.SymlinkPointsTo = -1
        /\ \/ e.SymlinkPointsTo = -1
           \/ /\ 0 <= e.SymlinkPointsTo /\ e.SymlinkPointsTo < i
              /\ e.IsSymlink
              /\ ~e.IsDuplicate

\* C36: in every result of Analyze, AnalyzeUnified and AnalyzeSessionPath,
\* for each entry i: a duplicate has 0 <= duplicateOf < i and
\* symlinkPointsTo = -1; symlinkPointsTo is -1 or the index of an earlier
\* entry, and then the entry is a symlink and no duplicate.
C36_MarksInRange ==
    \A es \in EveryResultList : \A i \in 0..(Len(es) - 1) : MarksInRange(es, i)

\* C36 witness: the three analyses have returned; the session's list holds
\* a duplicate of its first entry and a symlink that points to an earlier
\* entry, and so does the unified list.
C36_Witness ==
    /\ session # << >>
    /\ \A es \in { session[1].PathEntries, unified.PathEntries } :
          /\ \E i \in 1..Len(es) : es[i].IsDuplicate /\ es[i].DuplicateOf = 0
          /\ \E i \in 1..Len(es) : es[i].IsSymlink /\ es[i].SymlinkPointsTo = 1

\* what the 'which' endpoint and the dashboard must agree on, per entry
Designation(es) ==
    [ i \in 1..Len(es) |->
        [ Value |-> es[i].Value, IsDuplicate |-> es[i].IsDuplicate,
          DuplicateOf |-> es[i].DuplicateOf, SymlinkPointsTo |-> es[i].SymlinkPointsTo ] ]

\* C39: for one live PATH, AnalyzeSessionPath and AnalyzeUnified return
\* entry lists of the same length with the same value, isDuplicate,
\* duplicateOf and symlinkPointsTo at every index, whatever the events.
C39_SessionMatchesUnified ==
    session # << >> =>
        Designation(session[1].PathEntries) = Designation(unified.PathEntries)

\* C39 witness: both analyses have returned for a live PATH of one
\* directory three times, a symlink that the trace attributes to a file.
C39_Witness ==
    /\ session # << >>
    /\ nEvents = 2
    /\ Len(session[1].PathEntries) = 3
    /\ unified.PathEntries[1].SourceFile \in Files
    /\ unified.PathEntries[1].IsSymlink
    /\ session[1].PathEntries[3].IsDuplicate

\* C37: after every message handled by Update, SelectedIdx is not negative,
\* and it is smaller than the number of filtered indices whenever that
\* list is not empty.
C37_SelectedIdxInRange ==
    /\ app.SelectedIdx >= 0
    /\ app.Filtered > 0 => app.SelectedIdx < app.Filtered

\* C38: after every message handled by Update, keys pressed while the
\* trace is loading included, FlowSelectedIdx is not negative, and it is
\* smaller than the number of flow nodes whenever that list is not empty.
C38_FlowSelectedIdxInRange ==
    /\ app.FlowSelectedIdx >= 0
    /\ app.Nodes > 0 => app.FlowSelectedIdx < app.Nodes

====
